---- MODULE Spec2Model ----
(***************************************************************************)
(* Riegeli/records: the verified read path of the chunk reader             *)
(* (riegeli/records/chunk_reader.cc) over files laid out in blocks.        *)
(*                                                                         *)
(* Granularity.  A file is a sequence of 8-byte words; every position and  *)
(* size below counts words.  A block header is 3 words (24 bytes), a chunk *)
(* header is 5 words (40 bytes).  The block size is scaled down from 8192  *)
(* words (64 KiB) to kBlockSize words so that files spanning several       *)
(* blocks stay small.  Position p of the file is file[p + 1].              *)
(***************************************************************************)
EXTENDS Integers, Sequences, FiniteSets, TLC

(***************************************************************************)
(* Bounds of the model.                                                    *)
(***************************************************************************)
kBlockSize == 9
MaxChunks == 2
MaxDataSize == 3
MaxPosition == 70
MaxAppended == 9
MaxFlipLen == 2
MaxSeeks == 1

(***************************************************************************)
(* Format constants.                                                       *)
(***************************************************************************)
BlockHeaderSize == 3
ChunkHeaderSize == 5
kFileSignature == 115
kSimple == 114
kFileMetadata == 109
kPadding == 112
kTransposed == 116
kUnknownType == 120
TypeRadix == 256
HashMod == 65521

Min(a, b) == IF a <= b THEN a ELSE b

\* The element of a one-element set: The({e(x) : x \in {v}}) is e(v).
The(S) == CHOOSE x \in S : TRUE

Max(a, b) == IF a >= b THEN a ELSE b

(***************************************************************************)
(* Hash primitive: a polynomial hash of the words of a sequence.  A change *)
(* of one word always changes it (HashMod is prime).                       *)
(***************************************************************************)
RECURSIVE HashFrom(_, _)
HashFrom(h, s) ==
    IF s = <<>> THEN h
    ELSE HashFrom((h * 31 + (Head(s) % HashMod) + 1) % HashMod, Tail(s))

Hash(s) == HashFrom(Len(s) + 7, s)

(***************************************************************************)
(* Block geometry.                                                         *)
(***************************************************************************)
kUsableBlockSize == kBlockSize - BlockHeaderSize

IsBlockBoundary(p) == p % kBlockSize = 0

RemainingInBlock(p) == kBlockSize - (p % kBlockSize)

RemainingInBlockHeader(p) ==
    IF p % kBlockSize < BlockHeaderSize
    THEN BlockHeaderSize - (p % kBlockSize)
    ELSE 0

IsPossibleChunkBoundary(p) ==
    p % kBlockSize = 0 \/ p % kBlockSize >= BlockHeaderSize

\* Number of words outside block headers in [0, p).
UsableBefore(p) ==
    (p \div kBlockSize) * kUsableBlockSize
        + Max(0, (p % kBlockSize) - BlockHeaderSize)

DistanceWithoutOverhead(begin, end) == UsableBefore(end) - UsableBefore(begin)

\* Position reached from p after n words outside block headers, each block
\* boundary met on the way (the one at p included) costing a block header.
AddWithOverhead(p, n) ==
    IF n = 0 THEN p
    ELSE LET e == UsableBefore(p) + n
             blk == (e - 1) \div kUsableBlockSize
             off == ((e - 1) % kUsableBlockSize) + 1
         IN  IF off = kUsableBlockSize
             THEN (blk + 1) * kBlockSize
             ELSE blk * kBlockSize + BlockHeaderSize + off

(***************************************************************************)
(* Chunk header: <<stored_header_hash, data_size, data_hash,               *)
(*                 chunk_type | num_records << 8, decoded_data_size>>.     *)
(* Block header: <<stored_header_hash, previous_chunk, next_chunk>>.       *)
(***************************************************************************)
HeaderDataSize(h) == h[2]

HeaderDataHash(h) == h[3]

HeaderChunkType(h) == h[4] % TypeRadix

HeaderNumRecords(h) == h[4] \div TypeRadix

HeaderDecodedDataSize(h) == h[5]

ComputedHeaderHash(h) == Hash(Tail(h))

MakeChunkHeader(type, num_records, decoded, data) ==
    LET rest == <<Len(data), Hash(data), type + TypeRadix * num_records, decoded>>
    IN  <<Hash(rest)>> \o rest

MakeBlockHeader(prev, next) == <<Hash(<<prev, next>>), prev, next>>

ChunkEnd(h, chunk_begin) ==
    AddWithOverhead(chunk_begin, ChunkHeaderSize + HeaderDataSize(h))

ZeroWords(n) == [i \in 1..n |-> 0]

NoChunk == [header |-> ZeroWords(ChunkHeaderSize), data |-> <<>>]

SignatureChunk ==
    [header |-> MakeChunkHeader(kFileSignature, 0, 0, <<>>), data |-> <<>>]

(***************************************************************************)
(* Chunk writer: stripes header and payload of one chunk across blocks,    *)
(* with a block header at every block boundary of its extent.              *)
(***************************************************************************)
RECURSIVE WriteWords(_, _, _, _)
WriteWords(f, words, chunk_begin, chunk_end) ==
    IF words = <<>> THEN f
    ELSE IF IsBlockBoundary(Len(f))
    THEN LET b == Len(f)
             next == IF chunk_end - b < kBlockSize THEN chunk_end - b ELSE 0
         IN  WriteWords(f \o MakeBlockHeader(b - chunk_begin, next),
                        words, chunk_begin, chunk_end)
    ELSE WriteWords(Append(f, Head(words)), Tail(words), chunk_begin, chunk_end)

WriteChunk(f, c) ==
    WriteWords(f, c.header \o c.data, Len(f), ChunkEnd(c.header, Len(f)))

RECURSIVE WriteChunks(_, _)
WriteChunks(f, cs) ==
    IF cs = <<>> THEN f ELSE WriteChunks(WriteChunk(f, Head(cs)), Tail(cs))

\* Start offsets of the chunks cs written from offset p on.
RECURSIVE ChunkStarts(_, _)
ChunkStarts(p, cs) ==
    IF cs = <<>> THEN <<>>
    ELSE <<p>> \o ChunkStarts(ChunkEnd(Head(cs).header, p), Tail(cs))

(***************************************************************************)
(* State.                                                                  *)
(*   file, avail, src_err: the byte source.  Only file[1..avail] can be    *)
(*     read; a read or seek past avail ends at avail, as end of file when  *)
(*     src_err is FALSE and as an I/O error when it is TRUE.               *)
(*   written, defect: what the writer wrote and how the file was damaged.  *)
(*   failed_, closed_ .. byte_reader_: the ChunkReader object.             *)
(*   chunk, skipped_in, skipped_bytes, op, arg, ret, got: the caller's     *)
(*     view: the output chunk of ReadChunk, the counter handed to Recover  *)
(*     before and after the call when the last operation was Recover (-1:  *)
(*     a null pointer, or no Recover), the last operation, its argument    *)
(*     and result, and the chunks returned since construction or the last  *)
(*     Seek.                                                               *)
(*   assert_failed: a RIEGELI_ASSERT of the last operation did not hold    *)
(*     (the operation goes on as in a build without assertions).           *)
(***************************************************************************)
VARIABLES file, avail, src_err, written, defect,
          failed_, closed_, pos_, chunk_, block_header_,
          recoverable_, recoverable_pos_, current_chunk_is_incomplete_,
          byte_reader_,
          chunk, skipped_in, skipped_bytes, op, arg, ret, got, assert_failed,
          seeks,
          compressor, dest_, appended, varint,
          fd_readers, fd_offset,
          recover_pc, decoder, limiting_reader, chain_writer, fd_writer

env == <<file, avail, src_err, written, defect>>

reader == <<failed_, closed_, pos_, chunk_, block_header_, recoverable_,
            recoverable_pos_, current_chunk_is_incomplete_, byte_reader_>>

caller == <<chunk, skipped_in, skipped_bytes, op, arg, ret, got, assert_failed,
            seeks>>

\* The objects checked on their own: a Compressor with the Writer it encodes
\* to and the bytes appended to it so far, a call of a varint decoder, and
\* the FdReaders over one file descriptor with the file offset the
\* descriptor has in the kernel.
\* Further such objects: a ChunkDecoder, a LimitingReader with the Reader
\* under it, a ChainWriter with its Chain, an FdWriter with its file; and
\* the label a call of ChunkReader::Recover in progress has reached ("none":
\* no call is in progress).
more_units == <<recover_pc, decoder, limiting_reader, chain_writer, fd_writer>>

units == <<compressor, dest_, appended, varint, fd_readers, fd_offset,
           more_units>>

\* The value of a unit that is not constructed.
Absent == [state |-> "absent"]

NoMoreUnits ==
    /\ recover_pc = "none"
    /\ decoder = Absent
    /\ limiting_reader = Absent
    /\ chain_writer = Absent
    /\ fd_writer = Absent

NoUnits ==
    /\ NoMoreUnits
    /\ compressor = Absent
    /\ dest_ = Absent
    /\ appended = <<>>
    /\ varint = Absent
    /\ fd_readers = Absent
    /\ fd_offset = 0

vars == <<env, reader, caller, units>>

\* The ChunkReader object as one value.
Self ==
    [failed_ |-> failed_, closed_ |-> closed_, pos_ |-> pos_,
     chunk_ |-> chunk_, block_header_ |-> block_header_,
     recoverable_ |-> recoverable_, recoverable_pos_ |-> recoverable_pos_,
     current_chunk_is_incomplete_ |-> current_chunk_is_incomplete_,
     byte_reader_ |-> byte_reader_, assert_failed |-> FALSE]

Assign(r) ==
    /\ failed_' = r.failed_
    /\ closed_' = r.closed_
    /\ pos_' = r.pos_
    /\ chunk_' = r.chunk_
    /\ block_header_' = r.block_header_
    /\ recoverable_' = r.recoverable_
    /\ recoverable_pos_' = r.recoverable_pos_
    /\ current_chunk_is_incomplete_' = r.current_chunk_is_incomplete_
    /\ byte_reader_' = r.byte_reader_
    /\ assert_failed' = r.assert_failed

(***************************************************************************)
(* Object: health state.                                                   *)
(***************************************************************************)
healthy(r) == ~r.failed_ /\ ~r.closed_

Fail(r) == [r EXCEPT !.failed_ = TRUE]

MarkNotFailed(r) == [r EXCEPT !.failed_ = FALSE]

RiegeliAssert(r, cond) ==
    IF cond THEN r ELSE [r EXCEPT !.assert_failed = TRUE]

SaturatingAdd(a, b) == Min(a + b, MaxPosition)

\* Unsigned subtraction and addition of positions.
PositionSub(a, b) == (a - b) % (MaxPosition + 1)

PositionAdd(a, b) == (a + b) % (MaxPosition + 1)

(***************************************************************************)
(* Byte reader: Read(length) and Seek(new_pos) of a random access Reader.  *)
(* A read that meets the end of the available data keeps what it got.      *)
(***************************************************************************)
ByteReaderRead(r, length) ==
    LET b == r.byte_reader_
    IN  IF ~b.healthy
        THEN [r |-> r, ok |-> FALSE, bytes |-> <<>>]
        ELSE IF b.pos + length <= avail
        THEN [r |-> [r EXCEPT !.byte_reader_.pos = b.pos + length],
              ok |-> TRUE,
              bytes |-> SubSeq(file, b.pos + 1, b.pos + length)]
        ELSE [r |-> [r EXCEPT !.byte_reader_ =
                         [pos |-> Max(b.pos, avail), healthy |-> ~src_err]],
              ok |-> FALSE,
              bytes |-> SubSeq(file, b.pos + 1, avail)]

\* Seek(new_pos): beyond the size of the file the reader is left at the
\* size, healthy, and the result is false.  Up to the size the result is
\* true, also where the source fails: the reader is then left failed at
\* new_pos by the read that fills its buffer.
ByteReaderSeek(r, new_pos) ==
    LET b == r.byte_reader_
        size == IF src_err THEN Len(file) ELSE avail
    IN  IF ~b.healthy
        THEN [r |-> r, ok |-> FALSE]
        ELSE IF new_pos <= avail
        THEN [r |-> [r EXCEPT !.byte_reader_.pos = new_pos], ok |-> TRUE]
        ELSE IF new_pos <= size
        THEN [r |-> [r EXCEPT !.byte_reader_ =
                         [pos |-> new_pos, healthy |-> FALSE]],
              ok |-> TRUE]
        ELSE [r |-> [r EXCEPT !.byte_reader_.pos = size], ok |-> FALSE]

\* Size(): the size of the file behind the byte reader.  A file that ends
\* early has the size it ends at; a failing source still has all its words.
ByteReaderSize(r) ==
    IF ~r.byte_reader_.healthy THEN [ok |-> FALSE, size |-> 0]
    ELSE [ok |-> TRUE, size |-> IF src_err THEN Len(file) ELSE avail]

\* dest with bytes stored from index offset + 1 on.
Store(dest, offset, bytes) ==
    [i \in 1..Len(dest) |->
        IF i > offset /\ i <= offset + Len(bytes) THEN bytes[i - offset]
        ELSE dest[i]]

(***************************************************************************)
(* ChunkReader.                                                            *)
(***************************************************************************)
\* Fault: every failed read fails the ChunkReader, end of file included.
ReadingFailedAlways(r) == [r |-> Fail(r), ok |-> FALSE]

\* Fault: a read that meets the end of the data drops the payload read so
\* far.
ReadingFailedForgetting(r) ==
    IF r.byte_reader_.healthy
    THEN [r |-> IF r.byte_reader_.pos > r.pos_
                THEN [r EXCEPT !.current_chunk_is_incomplete_ = TRUE,
                               !.chunk_.data = <<>>]
                ELSE r,
          ok |-> FALSE]
    ELSE [r |-> Fail(r), ok |-> FALSE]

ReadingFailed(r) ==
    IF r.byte_reader_.healthy
    THEN [r |-> IF r.byte_reader_.pos > r.pos_
                THEN [r EXCEPT !.current_chunk_is_incomplete_ = TRUE]
                ELSE r,
          ok |-> FALSE]
    ELSE [r |-> Fail(r), ok |-> FALSE]

\* Fault: every recoverable failure is recorded as kFindChunk.
FailFindChunk(r, kind, rpos) ==
    [r |-> Fail([r EXCEPT !.recoverable_ = "kFindChunk",
                          !.recoverable_pos_ = rpos]),
     ok |-> FALSE]

FailRecoverable(r, kind, rpos) ==
    [r |-> Fail([r EXCEPT !.recoverable_ = kind, !.recoverable_pos_ = rpos]),
     ok |-> FALSE]

\* Fault: block headers are not read, their words pass for chunk words.
ReadBlockHeaderNever(r) == [r |-> r, ok |-> TRUE]

ReadBlockHeader(r) ==
    LET remaining_length == RemainingInBlockHeader(r.byte_reader_.pos)
    IN  IF remaining_length = 0 THEN [r |-> r, ok |-> TRUE]
        ELSE The({
            LET r1 == [rd.r EXCEPT !.block_header_ =
                          Store(@, BlockHeaderSize - remaining_length, rd.bytes)]
            IN  IF ~rd.ok THEN ReadingFailed(r1)
                ELSE IF Hash(Tail(r1.block_header_)) # r1.block_header_[1]
                THEN FailRecoverable(r1, "kFindChunk", r1.byte_reader_.pos)
                ELSE [r |-> r1, ok |-> TRUE]
            : rd \in {ByteReaderRead(r, remaining_length)}})

\* Fault: previous_chunk of a block header is not compared with anything.
PreviousChunkUnchecked(r, pos_before) == FALSE

\* The check made after ReadBlockHeader in ReadChunkHeader and ReadChunk.
PreviousChunkMismatch(r, pos_before) ==
    /\ IsBlockBoundary(pos_before)
    /\ r.block_header_[2] # PositionSub(pos_before, r.pos_)

\* The do-while loop of ReadChunkHeader.
RECURSIVE ReadChunkHeaderLoop(_)
ReadChunkHeaderLoop(r) ==
    The({
        IF ~bh.ok THEN bh
        ELSE IF PreviousChunkMismatch(bh.r, r.byte_reader_.pos)
        THEN FailRecoverable(bh.r, "kFindChunk", bh.r.byte_reader_.pos)
        ELSE
        LET chunk_header_read ==
                DistanceWithoutOverhead(bh.r.pos_, bh.r.byte_reader_.pos)
            remaining_length == ChunkHeaderSize - chunk_header_read
            length_to_read ==
                Min(remaining_length, RemainingInBlock(bh.r.byte_reader_.pos))
        IN  The({
                LET r1 == [rd.r EXCEPT !.chunk_.header =
                              Store(@, chunk_header_read, rd.bytes)]
                IN  IF ~rd.ok THEN ReadingFailed(r1)
                    ELSE IF length_to_read < remaining_length
                    THEN ReadChunkHeaderLoop(r1)
                    ELSE [r |-> r1, ok |-> TRUE]
                : rd \in {ByteReaderRead(bh.r, length_to_read)}})
        : bh \in {ReadBlockHeader(r)}})

IsSignatureHeader(h) ==
    /\ HeaderDataSize(h) = 0
    /\ HeaderChunkType(h) = kFileSignature
    /\ HeaderNumRecords(h) = 0
    /\ HeaderDecodedDataSize(h) = 0

\* Fault: the chunk header is accepted without its hash and signature checks.
ReadChunkHeaderUnverified(r) == ReadChunkHeaderLoop(r)

\* The chunk types of the format.
CanonicalChunkTypes ==
    {kFileSignature, kFileMetadata, kPadding, kSimple, kTransposed}

\* Fault: a chunk header whose chunk type is not one of the format is taken
\* for corrupted.
ReadChunkHeaderStrict(r) ==
    The({
        IF ~rd.ok THEN rd
        ELSE IF ComputedHeaderHash(rd.r.chunk_.header) # rd.r.chunk_.header[1]
        THEN FailRecoverable(rd.r, "kFindChunk", rd.r.byte_reader_.pos)
        ELSE IF rd.r.pos_ = 0 /\ ~IsSignatureHeader(rd.r.chunk_.header)
        THEN FailRecoverable(rd.r, "kFindChunk", rd.r.byte_reader_.pos)
        ELSE IF HeaderChunkType(rd.r.chunk_.header) \notin CanonicalChunkTypes
        THEN FailRecoverable(rd.r, "kFindChunk", rd.r.byte_reader_.pos)
        ELSE rd
        : rd \in {ReadChunkHeaderLoop(
                     RiegeliAssert(r,
                         healthy(r) /\
                         DistanceWithoutOverhead(r.pos_, r.byte_reader_.pos)
                             < ChunkHeaderSize))}})

ReadChunkHeader(r) ==
    The({
        IF ~rd.ok THEN rd
        ELSE IF ComputedHeaderHash(rd.r.chunk_.header) # rd.r.chunk_.header[1]
        THEN FailRecoverable(rd.r, "kFindChunk", rd.r.byte_reader_.pos)
        ELSE IF rd.r.pos_ = 0 /\ ~IsSignatureHeader(rd.r.chunk_.header)
        THEN FailRecoverable(rd.r, "kFindChunk", rd.r.byte_reader_.pos)
        ELSE rd
        : rd \in {ReadChunkHeaderLoop(
                     RiegeliAssert(r,
                         healthy(r) /\
                         DistanceWithoutOverhead(r.pos_, r.byte_reader_.pos)
                             < ChunkHeaderSize))}})

PullChunkHeader(r) ==
    IF ~healthy(r) THEN [r |-> r, ok |-> FALSE]
    ELSE The({
        IF ~sk.ok THEN ReadingFailed(sk.r)
        ELSE IF DistanceWithoutOverhead(sk.r.pos_, sk.r.byte_reader_.pos)
                    < ChunkHeaderSize
        THEN ReadChunkHeader(sk.r)
        ELSE sk
        : sk \in {IF r.byte_reader_.pos < r.pos_
                  THEN ByteReaderSeek(
                           [r EXCEPT !.current_chunk_is_incomplete_ = FALSE],
                           r.pos_)
                  ELSE [r |-> [r EXCEPT !.current_chunk_is_incomplete_ = FALSE],
                        ok |-> TRUE]}})

\* The while loop of ReadChunk.
RECURSIVE ReadChunkDataLoop(_)
ReadChunkDataLoop(r) ==
    IF Len(r.chunk_.data) >= HeaderDataSize(r.chunk_.header)
    THEN [r |-> r, ok |-> TRUE]
    ELSE The({
        IF ~bh.ok THEN bh
        ELSE IF PreviousChunkMismatch(bh.r, r.byte_reader_.pos)
        THEN FailRecoverable(bh.r, "kFindChunk", bh.r.byte_reader_.pos)
        ELSE The({
                LET r1 == [rd.r EXCEPT !.chunk_.data = @ \o rd.bytes]
                IN  IF ~rd.ok THEN ReadingFailed(r1)
                    ELSE ReadChunkDataLoop(r1)
                : rd \in {ByteReaderRead(bh.r,
                              Min(HeaderDataSize(bh.r.chunk_.header)
                                      - Len(bh.r.chunk_.data),
                                  RemainingInBlock(bh.r.byte_reader_.pos)))}})
        : bh \in {ReadBlockHeader(r)}})

\* Chunk::Reset empties the data.  The header words stay where they are:
\* PullChunkHeader and SeekToChunk take the header as read from the byte
\* reader's position alone, also after a Reset.
ChunkReset(r) == [r EXCEPT !.chunk_.data = <<>>]

\* Fault: the chunk read is handed to the caller even when its hash is wrong.
ReadChunkFinishYielding(r, out) ==
    LET chunk_end == ChunkEnd(r.chunk_.header, r.pos_)
    IN  IF Hash(r.chunk_.data) # HeaderDataHash(r.chunk_.header)
        THEN [r |-> FailRecoverable(r, "kHaveChunk", chunk_end).r,
              ok |-> FALSE, chunk |-> r.chunk_]
        ELSE [r |-> ChunkReset([r EXCEPT !.pos_ = chunk_end]),
              ok |-> TRUE, chunk |-> r.chunk_]

\* Fault: a chunk is handed over and pos stays at its beginning.
ReadChunkFinishStaying(r, out) ==
    IF Hash(r.chunk_.data) # HeaderDataHash(r.chunk_.header)
    THEN [r |-> FailRecoverable(r, "kHaveChunk",
                                ChunkEnd(r.chunk_.header, r.pos_)).r,
          ok |-> FALSE, chunk |-> out]
    ELSE [r |-> ChunkReset(r), ok |-> TRUE, chunk |-> r.chunk_]

\* Fault: the data hash is not compared.
ReadChunkFinishUnverified(r, out) ==
    [r |-> ChunkReset([r EXCEPT !.pos_ = ChunkEnd(r.chunk_.header, r.pos_)]),
     ok |-> TRUE, chunk |-> r.chunk_]

\* Fault: a signature chunk is passed over and not handed to the caller.
ReadChunkFinishHiding(r, out) ==
    LET chunk_end == ChunkEnd(r.chunk_.header, r.pos_)
    IN  IF Hash(r.chunk_.data) # HeaderDataHash(r.chunk_.header)
        THEN [r |-> FailRecoverable(r, "kHaveChunk", chunk_end).r,
              ok |-> FALSE, chunk |-> out]
        ELSE [r |-> ChunkReset([r EXCEPT !.pos_ = chunk_end]),
              ok |-> ~IsSignatureHeader(r.chunk_.header),
              chunk |-> IF IsSignatureHeader(r.chunk_.header)
                        THEN out ELSE r.chunk_]

\* ReadChunk after its loop: the data hash check and the hand-over.
ReadChunkFinish(r, out) ==
    LET chunk_end == ChunkEnd(r.chunk_.header, r.pos_)
    IN  IF Hash(r.chunk_.data) # HeaderDataHash(r.chunk_.header)
        THEN [r |-> FailRecoverable(r, "kHaveChunk", chunk_end).r,
              ok |-> FALSE, chunk |-> out]
        ELSE [r |-> ChunkReset([r EXCEPT !.pos_ = chunk_end]),
              ok |-> TRUE, chunk |-> r.chunk_]

\* The result carries the caller's output chunk: out when the call fails.
ReadChunk(r, out) ==
    The({
        IF ~ph.ok THEN [r |-> ph.r, ok |-> FALSE, chunk |-> out]
        ELSE The({
                IF ~rd.ok THEN [r |-> rd.r, ok |-> FALSE, chunk |-> out]
                ELSE ReadChunkFinish(rd.r, out)
                : rd \in {ReadChunkDataLoop(ph.r)}})
        : ph \in {PullChunkHeader(r)}})

\* Fault: the counter wraps instead of saturating.
AddSkippedWrapping(skipped, n) ==
    IF skipped = -1 THEN -1 ELSE (skipped + n) % (MaxPosition + 1)

AddSkipped(skipped, n) ==
    IF skipped = -1 THEN -1 ELSE SaturatingAdd(skipped, n)

\* Fault: Recover goes to the next block whatever the recovery kind.
RecoverTargetNextBlock(recoverable, recoverable_pos) ==
    PositionAdd(recoverable_pos, RemainingInBlock(recoverable_pos))

\* Where Recover resumes: after the known chunk, or at the next block.
RecoverTarget(recoverable, recoverable_pos) ==
    IF recoverable = "kFindChunk"
    THEN PositionAdd(recoverable_pos, RemainingInBlock(recoverable_pos))
    ELSE recoverable_pos

\* Fault: Recover ignores next_chunk and always moves on by one block.
RecoverNextChunkBlock(block_header) == kBlockSize

\* How far Recover moves on from a block header that starts no chunk.
RecoverNextChunk(block_header) ==
    IF block_header[3] = 0 THEN kBlockSize ELSE block_header[3]

\* One pass of Recover from one of its labels, "again" or "find_chunk", up
\* to the next goto (next: the label gone to) or to the return (next:
\* "return", ok: the value returned).
RecoverPass(label, r, skipped) ==
    IF label = "again"
    THEN
    LET recoverable == r.recoverable_
        recoverable_pos == RecoverTarget(recoverable, r.recoverable_pos_)
        skipped1 == AddSkipped(skipped, PositionSub(recoverable_pos, r.pos_))
        r1 == MarkNotFailed(
                  [RiegeliAssert(r, ~healthy(r) /\ r.recoverable_pos_ > r.pos_)
                      EXCEPT !.recoverable_ = "kNo", !.recoverable_pos_ = 0])
    IN  IF recoverable = "kReportSkippedBytes"
        THEN [next |-> "return",
              r |-> RiegeliAssert(r1, r1.closed_ /\ r1.pos_ = 0),
              ok |-> TRUE, skipped |-> skipped1]
        ELSE IF recoverable = "kHaveChunk"
        THEN [next |-> "return",
              r |-> ChunkReset([RiegeliAssert(r1, ~r1.closed_)
                                   EXCEPT !.pos_ = recoverable_pos]),
              ok |-> TRUE, skipped |-> skipped1]
        ELSE [next |-> "find_chunk",
              r |-> ChunkReset([RiegeliAssert(r1, ~r1.closed_)
                                   EXCEPT !.pos_ = recoverable_pos]),
              ok |-> TRUE, skipped |-> skipped1]
    ELSE The({
        IF ~sk.ok
        THEN IF sk.r.byte_reader_.healthy
             THEN [next |-> "return", r |-> sk.r, ok |-> TRUE,
                   skipped |-> skipped]
             ELSE [next |-> "return", r |-> Fail(sk.r), ok |-> FALSE,
                   skipped |-> skipped]
        ELSE The({
            IF ~bh.ok
            THEN IF bh.r.recoverable_ # "kNo"
                 THEN [next |-> "again", r |-> bh.r, ok |-> TRUE,
                       skipped |-> skipped]
                 ELSE [next |-> "return", r |-> bh.r, ok |-> TRUE,
                       skipped |-> skipped]
            ELSE IF bh.r.block_header_[2] = 0
            THEN [next |-> "return", r |-> bh.r, ok |-> TRUE,
                  skipped |-> skipped]
            ELSE
            LET next_chunk == RecoverNextChunk(bh.r.block_header_)
                pos == PositionAdd(bh.r.pos_, next_chunk)
            IN  [next |-> IF bh.r.block_header_[3] = 0
                             \/ ~IsPossibleChunkBoundary(pos)
                          THEN "find_chunk" ELSE "return",
                 r |-> [bh.r EXCEPT !.pos_ = pos],
                 ok |-> TRUE,
                 skipped |-> AddSkipped(skipped, next_chunk)]
            : bh \in {ReadBlockHeader(sk.r)}})
        : sk \in {ByteReaderSeek(r, r.pos_)}})

\* Recover from one of its labels on.
RECURSIVE RecoverFrom(_, _, _)
RecoverFrom(label, r, skipped) ==
    The({
        IF pass.next = "return"
        THEN [r |-> pass.r, ok |-> pass.ok, skipped |-> pass.skipped]
        ELSE RecoverFrom(pass.next, pass.r, pass.skipped)
        : pass \in {RecoverPass(label, r, skipped)}})

\* Fault: Recover clears the failure and leaves the reader where it was.
RecoverInPlace(r, skipped) ==
    IF r.recoverable_ = "kNo"
    THEN [r |-> r, ok |-> FALSE, skipped |-> skipped]
    ELSE [r |-> MarkNotFailed([r EXCEPT !.recoverable_ = "kNo",
                                        !.recoverable_pos_ = 0]),
          ok |-> TRUE, skipped |-> skipped]

Recover(r, skipped) ==
    IF r.recoverable_ = "kNo"
    THEN [r |-> r, ok |-> FALSE, skipped |-> skipped]
    ELSE RecoverFrom("again", r, skipped)

\* Fault: Seek goes ahead on a failed or closed reader.
SeekUnguarded(r, new_pos) ==
    The({
        IF ~sk.ok /\ ~sk.r.byte_reader_.healthy
        THEN [r |-> Fail(sk.r), ok |-> FALSE]
        ELSE IF ~IsPossibleChunkBoundary(new_pos)
        THEN FailRecoverable(sk.r, "kFindChunk", new_pos)
        ELSE [r |-> sk.r, ok |-> TRUE]
        : sk \in {ByteReaderSeek(
                     [ChunkReset(r) EXCEPT
                         !.pos_ = new_pos,
                         !.current_chunk_is_incomplete_ = FALSE],
                     new_pos)}})

Seek(r, new_pos) ==
    IF ~healthy(r) THEN [r |-> r, ok |-> FALSE]
    ELSE The({
        IF ~sk.ok /\ ~sk.r.byte_reader_.healthy
        THEN [r |-> Fail(sk.r), ok |-> FALSE]
        ELSE IF ~IsPossibleChunkBoundary(new_pos)
        THEN FailRecoverable(sk.r, "kFindChunk", new_pos)
        ELSE [r |-> sk.r, ok |-> TRUE]
        : sk \in {ByteReaderSeek(
                     [ChunkReset(r) EXCEPT
                         !.pos_ = new_pos,
                         !.current_chunk_is_incomplete_ = FALSE],
                     new_pos)}})

\* Fault: the format is taken for good without reading anything.
CheckFileFormatUnread(r) == [r |-> r, ok |-> healthy(r)]

CheckFileFormat(r) == PullChunkHeader(r)

SaturatingSub(a, b) == IF a > b THEN a - b ELSE 0

\* SeekToChunk: the block whose header the search may start from.
SeekBlockBegin(r, new_pos) ==
    LET block_begin == new_pos - (new_pos % kBlockSize)
        size == ByteReaderSize(r)
        max_block_begin == SaturatingSub(size.size, BlockHeaderSize)
    IN  IF block_begin > 0 /\ size.ok
        THEN Min(block_begin,
                 max_block_begin - (max_block_begin % kBlockSize))
        ELSE block_begin

\* SeekToChunk: a failed Seek of the byte reader.
SeekToChunkSeekFailed(r) ==
    IF r.byte_reader_.healthy THEN [r |-> r, ok |-> FALSE]
    ELSE [r |-> Fail(r), ok |-> FALSE]

\* The for loop of SeekToChunk, entered at its top ("seek") or at the label
\* check_current_chunk.
RECURSIVE SeekToChunkLoop(_, _, _, _)
SeekToChunkLoop(label, r, new_pos, containing) ==
    IF label = "seek"
    THEN The({
        IF ~sk.ok THEN SeekToChunkSeekFailed(sk.r)
        ELSE SeekToChunkLoop("check_current_chunk", sk.r, new_pos, containing)
        : sk \in {ByteReaderSeek(r, r.pos_)}})
    ELSE IF r.pos_ >= new_pos THEN [r |-> r, ok |-> TRUE]
    ELSE The({
        IF ~rh.ok THEN rh
        ELSE IF containing
                /\ rh.r.pos_ + HeaderNumRecords(rh.r.chunk_.header) > new_pos
        THEN [r |-> rh.r, ok |-> TRUE]
        ELSE SeekToChunkLoop(
                 "seek",
                 [rh.r EXCEPT !.pos_ = ChunkEnd(rh.r.chunk_.header, @)],
                 new_pos, containing)
        : rh \in {ReadChunkHeader(r)}})

\* Where SeekToChunk starts from after the block header at block_begin, which
\* does not begin a chunk.
SeekToChunkStart(block_header, block_begin, new_pos, containing) ==
    IF containing /\ block_begin + block_header[3] > new_pos
    THEN IF block_header[2] > block_begin THEN -1
         ELSE block_begin - block_header[2]
    ELSE block_begin + block_header[3]

\* SeekToChunk from the label read_block_header on.
SeekToChunkReadBlockHeader(r, block_begin, new_pos, containing) ==
    The({
        IF ~sk.ok THEN SeekToChunkSeekFailed(sk.r)
        ELSE The({
            IF ~bh.ok THEN bh
            ELSE IF bh.r.block_header_[2] = 0
            THEN SeekToChunkLoop("check_current_chunk", bh.r,
                                 new_pos, containing)
            ELSE The({
                IF start = -1
                THEN FailRecoverable(
                         [bh.r EXCEPT !.pos_ = block_begin + bh.r.block_header_[3]],
                         "kFindChunk", bh.r.byte_reader_.pos)
                ELSE IF ~IsPossibleChunkBoundary(start)
                THEN FailRecoverable([bh.r EXCEPT !.pos_ = start],
                                     "kFindChunk", bh.r.byte_reader_.pos)
                ELSE SeekToChunkLoop("seek", [bh.r EXCEPT !.pos_ = start],
                                     new_pos, containing)
                : start \in {SeekToChunkStart(bh.r.block_header_, block_begin,
                                              new_pos, containing)}})
            : bh \in {ReadBlockHeader(sk.r)}})
        : sk \in {ByteReaderSeek([r EXCEPT !.pos_ = block_begin],
                                 block_begin)}})

\* SeekToChunk with the current chunk at or before new_pos.
SeekToChunkFromCurrent(r, block_begin, new_pos, containing) ==
    IF r.pos_ = new_pos THEN [r |-> r, ok |-> TRUE]
    ELSE The({
        IF ~ph.ok THEN ph
        ELSE IF ChunkEnd(ph.r.chunk_.header, ph.r.pos_) < block_begin
        THEN SeekToChunkReadBlockHeader(ph.r, block_begin, new_pos, containing)
        ELSE IF containing
                /\ ph.r.pos_ + HeaderNumRecords(ph.r.chunk_.header) > new_pos
        THEN [r |-> ph.r, ok |-> TRUE]
        ELSE SeekToChunkLoop(
                 "seek",
                 [ph.r EXCEPT !.pos_ = ChunkEnd(ph.r.chunk_.header, @)],
                 new_pos, containing)
        : ph \in {PullChunkHeader(r)}})

SeekToChunk(r, new_pos, containing) ==
    IF ~healthy(r) THEN [r |-> r, ok |-> FALSE]
    ELSE The({
        IF r0.pos_ <= new_pos
        THEN SeekToChunkFromCurrent(r0, SeekBlockBegin(r0, new_pos),
                                    new_pos, containing)
        ELSE SeekToChunkReadBlockHeader(r0, SeekBlockBegin(r0, new_pos),
                                        new_pos, containing)
        : r0 \in {[ChunkReset(r) EXCEPT
                      !.current_chunk_is_incomplete_ = FALSE]}})

SeekToChunkContaining(r, new_pos) == SeekToChunk(r, new_pos, TRUE)

SeekToChunkAfter(r, new_pos) == SeekToChunk(r, new_pos, FALSE)

NoByteReader == [pos |-> 0, healthy |-> TRUE]

\* Fault: Done() does not report an incomplete chunk.
DoneSilent(r) == r

\* Done() up to the release of the byte reader.
DoneReport(r) ==
    IF healthy(r) /\ r.current_chunk_is_incomplete_
    THEN Fail([RiegeliAssert(r, r.byte_reader_.pos > r.pos_)
                  EXCEPT !.recoverable_ = "kReportSkippedBytes",
                         !.recoverable_pos_ =
                             PositionSub(r.byte_reader_.pos, r.pos_)])
    ELSE r

Done(r) ==
    [DoneReport([r EXCEPT !.recoverable_ = "kNo", !.recoverable_pos_ = 0])
        EXCEPT !.byte_reader_ = NoByteReader, !.pos_ = 0,
               !.chunk_ = NoChunk,
               !.current_chunk_is_incomplete_ = FALSE]

\* Object::Close(): Done() once, then closed; true iff not failed.
Close(r) ==
    IF r.closed_ THEN [r |-> r, ok |-> ~r.failed_]
    ELSE The({[r |-> [d EXCEPT !.closed_ = TRUE], ok |-> ~d.failed_]
              : d \in {Done(r)}})

\* ChunkReader(Reader*): a reader over a byte reader positioned at p.
Construct(p) ==
    LET r == [failed_ |-> FALSE, closed_ |-> FALSE, pos_ |-> p,
              chunk_ |-> NoChunk,
              block_header_ |-> ZeroWords(BlockHeaderSize),
              recoverable_ |-> "kNo", recoverable_pos_ |-> 0,
              current_chunk_is_incomplete_ |-> FALSE,
              byte_reader_ |-> [pos |-> p, healthy |-> TRUE],
              assert_failed |-> FALSE]
    IN  IF ~IsPossibleChunkBoundary(p)
        THEN FailRecoverable(r, "kFindChunk", p).r
        ELSE r

(***************************************************************************)
(* Files: what the writer wrote, and one defect.                           *)
(***************************************************************************)
MakeSimpleChunk(i, size) ==
    LET data == [j \in 1..size |-> i + j]
    IN  [header |-> MakeChunkHeader(kSimple, size + 1, size, data),
         data |-> data]

ChunkSeqs ==
    UNION {{[i \in 1..n |-> MakeSimpleChunk(i, sizes[i])] :
               sizes \in [1..n -> 1..MaxDataSize]} : n \in 0..MaxChunks}

\* Values a forged block header carries in previous_chunk and next_chunk.
ForgePointers == {0, 1, BlockHeaderSize + 1}

BlockBoundaries(f) == {b \in 0..(Len(f) - 1) : IsBlockBoundary(b)}

Defects(cs, f) ==
    {[kind |-> "none"]}
    \cup {[kind |-> k, at |-> t] :
             k \in {"truncated", "io_error"}, t \in 0..(Len(f) - 1)}
    \cup {d \in {[kind |-> "flip", from |-> a, to |-> a + k] :
                      a \in 0..(Len(f) - 1), k \in 0..(MaxFlipLen - 1)} :
             d.to < Len(f)}
    \cup {[kind |-> "forge", at |-> b, header |-> MakeBlockHeader(p, n)] :
             b \in BlockBoundaries(f),
             p \in ForgePointers, n \in ForgePointers}
    \cup {[kind |-> "no_signature"] : x \in {1} \cap {Len(cs)}}

Damaged(f, d) ==
    IF d.kind = "flip"
    THEN [i \in 1..Len(f) |->
             IF i - 1 >= d.from /\ i - 1 <= d.to THEN (f[i] + 1) % HashMod
             ELSE f[i]]
    ELSE IF d.kind = "forge"
    THEN Store(f, d.at, d.header)
    ELSE f

InitFile(cs, d) ==
    LET all == IF d.kind = "no_signature" THEN cs ELSE <<SignatureChunk>> \o cs
        f == Damaged(WriteChunks(<<>>, all), d)
    IN  /\ written = all
        /\ defect = d
        /\ file = f
        /\ avail = IF d.kind \in {"truncated", "io_error"} THEN d.at ELSE Len(f)
        /\ src_err = (d.kind = "io_error")

InitReader(p) ==
    LET r == Construct(p)
    IN  /\ failed_ = r.failed_
        /\ closed_ = r.closed_
        /\ pos_ = r.pos_
        /\ chunk_ = r.chunk_
        /\ block_header_ = r.block_header_
        /\ recoverable_ = r.recoverable_
        /\ recoverable_pos_ = r.recoverable_pos_
        /\ current_chunk_is_incomplete_ = r.current_chunk_is_incomplete_
        /\ byte_reader_ = r.byte_reader_
        /\ assert_failed = FALSE

InitCalls ==
    /\ chunk = NoChunk
    /\ skipped_in = -1
    /\ skipped_bytes = -1
    /\ op = "ChunkReader"
    /\ arg = 0
    /\ ret = TRUE
    /\ got = <<>>
    /\ seeks = 0

InitCaller ==
    /\ InitCalls
    /\ NoUnits

Init ==
    /\ \E cs \in ChunkSeqs :
          \E d \in Defects(cs, WriteChunks(<<>>, <<SignatureChunk>> \o cs)) :
             InitFile(cs, d)
    /\ InitReader(0)
    /\ InitCaller

(***************************************************************************)
(* Operations of the caller.                                               *)
(***************************************************************************)
\* seeks counts the calls of Seek made so far.
Called(name, a, result) ==
    /\ op' = name
    /\ arg' = a
    /\ ret' = result
    /\ seeks' = IF name = "Seek" THEN seeks + 1 ELSE seeks
    /\ UNCHANGED units

\* An operation other than Recover: no counter is in use.
NoCounter ==
    /\ skipped_in' = -1
    /\ skipped_bytes' = -1

ReadChunkOp ==
    \E res \in {ReadChunk(Self, chunk)} :
        /\ Assign(res.r)
        /\ chunk' = res.chunk
        /\ got' = IF res.ok THEN Append(got, res.chunk) ELSE got
        /\ Called("ReadChunk", 0, res.ok)
        /\ NoCounter
        /\ UNCHANGED env

PullChunkHeaderOp ==
    \E res \in {PullChunkHeader(Self)} :
        /\ Assign(res.r)
        /\ Called("PullChunkHeader", 0, res.ok)
        /\ NoCounter
        /\ UNCHANGED <<env, chunk, got>>

\* The counters a caller hands to Recover: none, a fresh one, one near the
\* maximum.
SkippedStarts == {-1, 0, MaxPosition - kBlockSize}

RecoverOp ==
    \E s \in SkippedStarts :
        \E res \in {Recover(Self, s)} :
            /\ Assign(res.r)
            /\ skipped_in' = s
            /\ skipped_bytes' = res.skipped
            /\ Called("Recover", 0, res.ok)
            /\ UNCHANGED <<env, chunk, got>>

CloseOp ==
    \E res \in {Close(Self)} :
        /\ Assign(res.r)
        /\ Called("Close", 0, res.ok)
        /\ NoCounter
        /\ UNCHANGED <<env, chunk, got>>

\* Seek to any position of the file, or just past its end.
SeekOp ==
    \E new_pos \in 0..(Len(file) + 1) :
        \E res \in {Seek(Self, new_pos)} :
            /\ seeks < MaxSeeks
            /\ Assign(res.r)
            /\ got' = <<>>
            /\ Called("Seek", new_pos, res.ok)
            /\ NoCounter
            /\ UNCHANGED <<env, chunk>>

Next ==
    \/ ReadChunkOp
    \/ PullChunkHeaderOp
    \/ RecoverOp
    \/ CloseOp

Spec == Init /\ [][Next]_vars

(***************************************************************************)
(* Repositioning: a reader built over a byte reader at any position of an  *)
(* undamaged file, with Seek among the operations.                         *)
(***************************************************************************)
InitSeek ==
    /\ \E cs \in ChunkSeqs : InitFile(cs, [kind |-> "none"])
    /\ \E p \in 0..Len(file) : InitReader(p)
    /\ InitCaller

NextSeek ==
    \/ ReadChunkOp
    \/ PullChunkHeaderOp
    \/ RecoverOp
    \/ CloseOp
    \/ SeekOp

SpecSeek == InitSeek /\ [][NextSeek]_vars

(***************************************************************************)
(* The file format check and the searching seeks.                          *)
(***************************************************************************)
CheckFileFormatOp ==
    \E res \in {CheckFileFormat(Self)} :
        /\ Assign(res.r)
        /\ Called("CheckFileFormat", 0, res.ok)
        /\ NoCounter
        /\ UNCHANGED <<env, chunk, got>>

\* The seeks with their argument drawn from the positions in S.
SeekWithin(S) ==
    \E new_pos \in S :
        \E res \in {Seek(Self, new_pos)} :
            /\ seeks < MaxSeeks
            /\ Assign(res.r)
            /\ got' = <<>>
            /\ Called("Seek", new_pos, res.ok)
            /\ NoCounter
            /\ UNCHANGED <<env, chunk>>

SeekToChunkAfterWithin(S) ==
    \E new_pos \in S :
        \E res \in {SeekToChunkAfter(Self, new_pos)} :
            /\ Assign(res.r)
            /\ got' = <<>>
            /\ Called("SeekToChunkAfter", new_pos, res.ok)
            /\ NoCounter
            /\ UNCHANGED <<env, chunk>>

SeekToChunkContainingWithin(S) ==
    \E new_pos \in S :
        \E res \in {SeekToChunkContaining(Self, new_pos)} :
            /\ Assign(res.r)
            /\ got' = <<>>
            /\ Called("SeekToChunkContaining", new_pos, res.ok)
            /\ NoCounter
            /\ UNCHANGED <<env, chunk>>

SeekToChunkAfterOp == SeekToChunkAfterWithin(0..(Len(file) + 1))

SeekToChunkContainingOp == SeekToChunkContainingWithin(0..(Len(file) + 1))

\* Reading with the format check among the operations, over every file.
NextFormat ==
    \/ CheckFileFormatOp
    \/ ReadChunkOp
    \/ RecoverOp
    \/ CloseOp

SpecFormat == Init /\ [][NextFormat]_vars

\* Searching seeks over the undamaged files, the reader starting at 0.
InitSeekToChunk ==
    /\ \E cs \in ChunkSeqs : InitFile(cs, [kind |-> "none"])
    /\ InitReader(0)
    /\ InitCaller

NextSeekToChunk ==
    \/ ReadChunkOp
    \/ PullChunkHeaderOp
    \/ SeekToChunkAfterOp
    \/ SeekToChunkContainingOp

SpecSeekToChunk == InitSeekToChunk /\ [][NextSeekToChunk]_vars

\* Every operation over byte sources that fail at some position, the files
\* being those of chunks of the largest size.
LargeChunkSeqs ==
    {cs \in ChunkSeqs : \A i \in 1..Len(cs) : Len(cs[i].data) = MaxDataSize}

InitSourceFailure ==
    /\ \E cs \in LargeChunkSeqs :
           \E t \in 0..Len(WriteChunks(<<>>, <<SignatureChunk>> \o cs)) - 1 :
               InitFile(cs, [kind |-> "io_error", at |-> t])
    /\ InitReader(0)
    /\ InitCaller

\* Seek arguments around the position where the source fails.
FailureTargets == {0, avail, avail + 1, Len(file)}

NextSourceFailure ==
    \/ ReadChunkOp
    \/ PullChunkHeaderOp
    \/ CheckFileFormatOp
    \/ RecoverOp
    \/ SeekWithin(FailureTargets)
    \/ SeekToChunkAfterWithin(FailureTargets)
    \/ SeekToChunkContainingWithin(FailureTargets)

SpecSourceFailure == InitSourceFailure /\ [][NextSourceFailure]_vars

\* No chunk after the signature, or one chunk of the largest size.
FewChunkSeqs == {cs \in LargeChunkSeqs : Len(cs) <= 1}

\* Every public operation, over the files of at most one chunk of the largest
\* size with every defect, the seeks aiming at the beginning of a block or at
\* the end of the file.
InitEveryCall ==
    /\ \E cs \in FewChunkSeqs :
          \E d \in Defects(cs, WriteChunks(<<>>, <<SignatureChunk>> \o cs)) :
             InitFile(cs, d)
    /\ InitReader(0)
    /\ InitCaller

CallTargets == {0, kBlockSize, Len(file)}

NextEveryCall ==
    \/ ReadChunkOp
    \/ PullChunkHeaderOp
    \/ CheckFileFormatOp
    \/ RecoverOp
    \/ CloseOp
    \/ SeekWithin(CallTargets)
    \/ SeekToChunkAfterWithin(CallTargets)
    \/ SeekToChunkContainingWithin(CallTargets)

SpecEveryCall == InitEveryCall /\ [][NextEveryCall]_vars

(***************************************************************************)
(* Reading a file that grows: the byte reader meets the end of the data at *)
(* hand (no failure), more of the file becomes readable, reading resumes.  *)
(***************************************************************************)
\* The file undamaged or with one block header forged.
GrowingDefects(f) ==
    {d \in Defects(<<>>, f) : d.kind \in {"none", "forge"}}

InitGrowing ==
    /\ \E cs \in FewChunkSeqs :
          \E d \in GrowingDefects(WriteChunks(<<>>, <<SignatureChunk>> \o cs)) :
             /\ written = <<SignatureChunk>> \o cs
             /\ defect = d
             /\ file = Damaged(WriteChunks(<<>>, written), d)
    /\ avail \in 0..Len(file)
    /\ src_err = FALSE
    /\ InitReader(0)
    /\ InitCaller

\* More of the file becomes readable.
Grow ==
    /\ avail < Len(file)
    /\ avail' \in (avail + 1)..Len(file)
    /\ UNCHANGED <<file, src_err, written, defect, reader, caller, units>>

NextGrowing ==
    \/ ReadChunkOp
    \/ PullChunkHeaderOp
    \/ RecoverOp
    \/ Grow

SpecGrowing == InitGrowing /\ [][NextGrowing]_vars

(***************************************************************************)
(* Files of chunks of several chunk types, one of them outside the format, *)
(* with both hashes right; with the signature chunk first, or without it.  *)
(***************************************************************************)
MakeTypedChunk(type, i, size) ==
    LET data == [j \in 1..size |-> i + j]
    IN  [header |-> MakeChunkHeader(type, size, size, data), data |-> data]

ChunkTypesWritten == {kSimple, kPadding, kUnknownType}

TypedChunkSeqs ==
    UNION {{[i \in 1..n |-> MakeTypedChunk(types[i], i, sizes[i])] :
               types \in [1..n -> ChunkTypesWritten],
               sizes \in [1..n -> 0..1]} : n \in 1..MaxChunks}

InitChunkType ==
    /\ \E cs \in TypedChunkSeqs :
          \E k \in {"none", "no_signature"} : InitFile(cs, [kind |-> k])
    /\ InitReader(0)
    /\ InitCaller

NextChunkType ==
    \/ ReadChunkOp
    \/ PullChunkHeaderOp
    \/ RecoverOp

SpecChunkType == InitChunkType /\ [][NextChunkType]_vars

(***************************************************************************)
(* What the file holds at a position, read off the layout alone.           *)
(***************************************************************************)
\* The k-th word outside block headers from position p on.
WordAt(p, k) == file[AddWithOverhead(p, k)]

FileHeaderAt(p) == [k \in 1..ChunkHeaderSize |-> WordAt(p, k)]

FileDataAt(p, size) == [k \in 1..size |-> WordAt(p, ChunkHeaderSize + k)]

HeaderEnd(p) == AddWithOverhead(p, ChunkHeaderSize)

BoundariesIn(a, b) == {x \in a..(b - 1) : IsBlockBoundary(x)}

BlockHeaderHashOk(b) == Hash(<<file[b + 2], file[b + 3]>>) = file[b + 1]

BlockHeaderPrevOk(b, p) == file[b + 2] = b - p

\* The chunk header at p: "short" when the file ends before its end, else
\* the first thing wrong with it, else "ok".
ClassifyHeader(p) ==
    IF HeaderEnd(p) > avail THEN "short"
    ELSE IF \E b \in BoundariesIn(p, HeaderEnd(p)) : ~BlockHeaderHashOk(b)
    THEN "block_header_hash"
    ELSE IF \E b \in BoundariesIn(p, HeaderEnd(p)) : ~BlockHeaderPrevOk(b, p)
    THEN "previous_chunk"
    ELSE IF ComputedHeaderHash(FileHeaderAt(p)) # FileHeaderAt(p)[1]
    THEN "chunk_header_hash"
    ELSE IF p = 0 /\ ~IsSignatureHeader(FileHeaderAt(p))
    THEN "signature"
    ELSE "ok"

\* The payload of the chunk at p, whose header is "ok".
ClassifyData(p) ==
    LET h == FileHeaderAt(p)
        end == ChunkEnd(h, p)
    IN  IF end > avail THEN "short"
        ELSE IF \E b \in BoundariesIn(HeaderEnd(p), end) : ~BlockHeaderHashOk(b)
        THEN "block_header_hash"
        ELSE IF \E b \in BoundariesIn(HeaderEnd(p), end) :
                    ~BlockHeaderPrevOk(b, p)
        THEN "previous_chunk"
        ELSE IF Hash(FileDataAt(p, HeaderDataSize(h))) # HeaderDataHash(h)
        THEN "data_hash"
        ELSE "ok"

ClassifyChunk(p) ==
    IF ClassifyHeader(p) # "ok" THEN ClassifyHeader(p) ELSE ClassifyData(p)

FindChunkCauses ==
    {"block_header_hash", "previous_chunk", "chunk_header_hash", "signature"}

Healthy == ~failed_ /\ ~closed_

\* Some payload word of chunk c written at start is followed by a block header.
PayloadCrossesBlock(c, start) ==
    \E k \in 1..(Len(c.data) - 1) :
        AddWithOverhead(start, ChunkHeaderSize + k + 1)
            > AddWithOverhead(start, ChunkHeaderSize + k) + 1

(***************************************************************************)
(* C1.  Round trip: over an undamaged file the successive ReadChunk calls  *)
(* return the signature chunk and then exactly the chunks written, in      *)
(* order; the ReadChunk that returns false leaves the reader healthy with  *)
(* everything returned; recovery is never applicable.                      *)
(***************************************************************************)
C1_RoundTrip ==
    defect.kind = "none" =>
        /\ Len(got) <= Len(written)
        /\ got = SubSeq(written, 1, Len(got))
        /\ recoverable_ = "kNo"
        /\ (op = "ReadChunk" /\ ~ret /\ ~closed_) =>
               (~failed_ /\ got = written)
        /\ op = "Recover" => (~ret /\ skipped_bytes = skipped_in)

C1_Witness ==
    /\ defect.kind = "none"
    /\ Len(written) = MaxChunks + 1
    /\ op = "ReadChunk" /\ ~ret /\ Healthy
    /\ got = written
    /\ \E i \in 2..Len(written) :
          PayloadCrossesBlock(written[i], ChunkStarts(0, written)[i])

(***************************************************************************)
(* C2.  A ReadChunk that returns false leaves the caller's chunk as it was *)
(* and does not move pos.                                                  *)
(***************************************************************************)
C2_FailedReadYieldsNothing ==
    [][(op' = "ReadChunk" /\ ~ret') => (chunk' = chunk /\ pos_' = pos_)]_vars

C2_Witness ==
    /\ op = "ReadChunk" /\ ~ret
    /\ failed_ /\ recoverable_ = "kHaveChunk"
    /\ chunk # NoChunk /\ chunk.data # <<>>

(***************************************************************************)
(* C3.  A ReadChunk that returns true hands over the chunk the file holds  *)
(* at pos: its header hash and its data hash are valid, the data has       *)
(* data_size words, pos moves to ChunkEnd(header, old pos) and no chunk is *)
(* in progress any more: no data is held and the byte reader is at pos.    *)
(***************************************************************************)
C3_ReadChunkVerified ==
    [][(op' = "ReadChunk" /\ ret') =>
          /\ chunk'.header = FileHeaderAt(pos_)
          /\ chunk'.data = FileDataAt(pos_, HeaderDataSize(chunk'.header))
          /\ ComputedHeaderHash(chunk'.header) = chunk'.header[1]
          /\ Hash(chunk'.data) = HeaderDataHash(chunk'.header)
          /\ Len(chunk'.data) = HeaderDataSize(chunk'.header)
          /\ pos_' = ChunkEnd(chunk'.header, pos_)
          /\ chunk_'.data = <<>>
          /\ byte_reader_'.pos = pos_'
          /\ ~current_chunk_is_incomplete_'
          /\ ~failed_']_vars

C3_Witness ==
    /\ op = "ReadChunk" /\ ret
    /\ defect.kind = "flip"
    /\ Len(chunk.data) = MaxDataSize
    /\ pos_ = Len(file)

\* The counter s after n more skipped words (-1: no counter).
Counted(s, n) ==
    IF s = -1 THEN -1 ELSE IF s + n > MaxPosition THEN MaxPosition ELSE s + n

(***************************************************************************)
(* C4.  A chunk whose header is valid and whose payload fails its hash     *)
(* makes ReadChunk fail with kHaveChunk and the chunk's end remembered.    *)
(* Recover then returns true, the reader is healthy, pos is the end of the *)
(* chunk, and the counter grows by ChunkEnd - old pos.  When that chunk    *)
(* was the last one the next ReadChunk returns false on a healthy reader.  *)
(***************************************************************************)
C4_ReadHaveChunk ==
    (op' = "ReadChunk" /\ Healthy /\ ClassifyChunk(pos_) = "data_hash") =>
        /\ ~ret' /\ failed_'
        /\ recoverable_' = "kHaveChunk"
        /\ recoverable_pos_' = ChunkEnd(FileHeaderAt(pos_), pos_)

C4_RecoverHaveChunk ==
    (op' = "Recover" /\ recoverable_ = "kHaveChunk") =>
        /\ ret' /\ ~failed_' /\ ~closed_'
        /\ recoverable_' = "kNo"
        /\ pos_' = recoverable_pos_
        /\ pos_' = ChunkEnd(FileHeaderAt(pos_), pos_)
        /\ skipped_bytes' =
               Counted(skipped_in', ChunkEnd(FileHeaderAt(pos_), pos_) - pos_)

C4_ReadAfterLastChunk ==
    (op' = "ReadChunk" /\ op = "Recover" /\ ret /\ Healthy
         /\ pos_ = Len(file) /\ avail = Len(file) /\ ~src_err) =>
        (~ret' /\ ~failed_' /\ ~closed_')

C4_PayloadCorruption ==
    [][C4_ReadHaveChunk /\ C4_RecoverHaveChunk /\ C4_ReadAfterLastChunk]_vars

\* After the damaged last chunk was skipped and counted, ReadChunk has
\* returned false on a healthy reader.
C4_Witness ==
    /\ defect.kind = "flip"
    /\ op = "ReadChunk" /\ ~ret /\ Healthy
    /\ pos_ = Len(file)
    /\ Len(written) = MaxChunks + 1
    /\ Len(got) = MaxChunks

(***************************************************************************)
(* C5.  Each of these makes the read fail with kFindChunk: a block header  *)
(* whose stored hash is wrong; a chunk header whose stored hash is wrong;  *)
(* a chunk at position 0 that is not the signature; a block header whose   *)
(* previous_chunk differs from block boundary - pos.                       *)
(***************************************************************************)
C5_ReadChunkCause ==
    (op' = "ReadChunk" /\ Healthy /\ ClassifyChunk(pos_) \in FindChunkCauses) =>
        (~ret' /\ failed_' /\ recoverable_' = "kFindChunk")

C5_PullChunkHeaderCause ==
    (op' = "PullChunkHeader" /\ Healthy
         /\ ClassifyHeader(pos_) \in FindChunkCauses) =>
        (~ret' /\ failed_' /\ recoverable_' = "kFindChunk")

C5_FindChunkCauses == [][C5_ReadChunkCause /\ C5_PullChunkHeaderCause]_vars

\* A block header with a valid hash and a wrong previous_chunk has failed
\* the read of a later chunk.
C5_Witness ==
    /\ defect.kind = "forge"
    /\ BlockHeaderHashOk(defect.at)
    /\ op = "ReadChunk" /\ ~ret /\ failed_
    /\ recoverable_ = "kFindChunk"
    /\ pos_ > 0
    /\ ClassifyChunk(pos_) = "previous_chunk"

\* A first chunk that is not the file signature has failed the read.
C5_WitnessMissingSignature ==
    /\ op = "ReadChunk" /\ ~ret /\ failed_ /\ recoverable_ = "kFindChunk"
    /\ ClassifyChunk(pos_) = "signature"

(***************************************************************************)
(* C6.  Recovery monotonicity.  As claimed, for all three recovery kinds:  *)
(* whenever Recover returns true, pos is strictly greater than before.     *)
(***************************************************************************)
C6_MonotonicAllKinds ==
    [][(op' = "Recover" /\ ret') => pos_' > pos_]_vars

(***************************************************************************)
(* C6 on an open reader.  Recover returning true moves pos strictly       *)
(* forwards when the recovery kind is kFindChunk or kHaveChunk.  For       *)
(* kReportSkippedBytes the reader is closed and pos is 0 before and after. *)
(***************************************************************************)
C6_Monotonic ==
    [][(op' = "Recover" /\ ret') =>
          /\ recoverable_ \in {"kFindChunk", "kHaveChunk"} => pos_' > pos_
          /\ recoverable_ = "kReportSkippedBytes" =>
                 (closed_ /\ closed_' /\ pos_ = 0 /\ pos_' = 0)]_vars

\* Recover has moved an open reader forwards and counted what it skipped.
C6_Witness ==
    /\ op = "Recover" /\ ret /\ Healthy
    /\ skipped_in = 0 /\ skipped_bytes > kBlockSize
    /\ pos_ > kBlockSize

(***************************************************************************)
(* C7.  As claimed: a reader left by Seek(P), or constructed at P, with P  *)
(* inside a block header (0 < P mod kBlockSize < BlockHeaderSize) is       *)
(* failed with kFindChunk, and the following Recover violates no internal  *)
(* assertion, returns true and leaves the reader healthy beyond P.         *)
(***************************************************************************)
AtImpossibleBoundary ==
    /\ op \in {"Seek", "ChunkReader"}
    /\ ~ret \/ op = "ChunkReader"
    /\ ~IsPossibleChunkBoundary(pos_)
    /\ op = "Seek" => arg = pos_
    /\ recoverable_pos_ = pos_

C7_SeekFails ==
    (op' = "Seek" /\ Healthy /\ ~IsPossibleChunkBoundary(arg')) =>
        (~ret' /\ failed_' /\ recoverable_' = "kFindChunk" /\ pos_' = arg')

C7_RecoverAfterSeek ==
    (op' = "Recover" /\ AtImpossibleBoundary) =>
        /\ failed_ /\ recoverable_ = "kFindChunk"
        /\ ~assert_failed'
        /\ ret' /\ ~failed_' /\ ~closed_'
        /\ pos_' > pos_

C7_ImpossibleBoundaryRecoverable ==
    [][C7_SeekFails /\ C7_RecoverAfterSeek]_vars

(***************************************************************************)
(* C8.  As claimed: Recover adds recoverable_pos - pos, as stored when the *)
(* failure was recorded, to the counter, saturating.                       *)
(***************************************************************************)
C8_StoredDifference ==
    [][(op' = "Recover" /\ recoverable_ # "kNo") =>
          skipped_bytes' =
              Counted(skipped_in', PositionSub(recoverable_pos_, pos_))]_vars

(***************************************************************************)
(* C8, amended.  For kHaveChunk and kReportSkippedBytes Recover adds the   *)
(* stored recoverable_pos - pos.  For kFindChunk it adds the whole         *)
(* distance from pos to the position it resumes at, which is at least the  *)
(* distance to the first block boundary after recoverable_pos.  The        *)
(* addition saturates.  Without a counter nothing is counted and the       *)
(* reader ends in the same state with the same result.                     *)
(***************************************************************************)
C8_Counted ==
    op' = "Recover" =>
        /\ recoverable_ \in {"kHaveChunk", "kReportSkippedBytes"} =>
               skipped_bytes' = Counted(skipped_in', recoverable_pos_ - pos_)
        /\ recoverable_ = "kFindChunk" =>
               /\ skipped_bytes' = Counted(skipped_in', pos_' - pos_)
               /\ pos_' >= recoverable_pos_ + RemainingInBlock(recoverable_pos_)
        /\ recoverable_ = "kNo" => skipped_bytes' = skipped_in'
        /\ skipped_bytes' <= MaxPosition
        /\ skipped_in' # -1 => skipped_bytes' >= skipped_in'

\* Recover without a counter, from the state the step starts in, ends as
\* the step does, whatever counter the step was given.
C8_NullCounter ==
    op' = "Recover" =>
        \E without \in {Recover(Self, -1)} :
            /\ [without.r EXCEPT !.assert_failed = FALSE] = Self'
            /\ without.ok = ret'
            /\ without.skipped = -1

C8_SkippedBytes == [][C8_Counted /\ C8_NullCounter]_vars

\* A counter close to the maximum has saturated in a Recover that resumed
\* beyond the first block boundary after the failure.
C8_Witness ==
    /\ op = "Recover" /\ ret /\ Healthy
    /\ skipped_in = MaxPosition - kBlockSize
    /\ skipped_bytes = MaxPosition
    /\ ~IsBlockBoundary(pos_)
    /\ defect.kind = "flip" /\ ClassifyChunk(0) = "ok"

(***************************************************************************)
(* C9.  Recovery completeness.  When a contiguous range lying wholly in    *)
(* the payload of one written chunk is damaged: the chunks before it are   *)
(* returned as written; ReadChunk on it fails recoverably; Recover returns *)
(* true and puts the reader at the start of the next chunk (the end of the *)
(* file after the last one); the later chunks are returned as written, in  *)
(* order, and nothing else is.                                             *)
(***************************************************************************)
Starts == ChunkStarts(0, written)

\* File offsets of the payload words of the k-th written chunk.
PayloadOffsets(k) ==
    {AddWithOverhead(Starts[k], ChunkHeaderSize + j) - 1 :
         j \in 1..Len(written[k].data)}

PayloadDamaged(k) ==
    /\ defect.kind = "flip"
    /\ \A x \in defect.from..defect.to : x \in PayloadOffsets(k)

NextStart(k) == IF k < Len(written) THEN Starts[k + 1] ELSE Len(file)

AllBut(k) == SubSeq(written, 1, k - 1) \o SubSeq(written, k + 1, Len(written))

C9_State(k) ==
    /\ Len(got) < Len(written)
    /\ got = SubSeq(AllBut(k), 1, Len(got))
    /\ (failed_ /\ ~closed_) =>
           /\ pos_ = Starts[k]
           /\ recoverable_ = "kHaveChunk"
           /\ recoverable_pos_ = NextStart(k)
           /\ got = SubSeq(written, 1, k - 1)
    /\ (op = "ReadChunk" /\ ~ret /\ Healthy) => got = AllBut(k)

C9_Step(k) ==
    /\ (op' = "ReadChunk" /\ Healthy /\ pos_ < Len(file)) =>
           IF pos_ = Starts[k]
           THEN ~ret' /\ failed_' /\ recoverable_' = "kHaveChunk"
           ELSE ret' /\ ~failed_' /\ chunk' = AllBut(k)[Len(got')]
    /\ (op' = "Recover" /\ failed_ /\ ~closed_) =>
           (ret' /\ ~failed_' /\ ~closed_' /\ pos_' = NextStart(k))

C9_RecoveryCompleteness ==
    [][\A k \in 2..Len(written) :
           PayloadDamaged(k) => (C9_State(k)' /\ C9_Step(k))]_vars

\* A damaged range of more than one word in the middle chunk's payload was
\* skipped, and the reader has returned every other chunk and met the end.
C9_Witness ==
    /\ Len(written) = 3
    /\ PayloadDamaged(2)
    /\ defect.to > defect.from
    /\ op = "ReadChunk" /\ ~ret /\ Healthy
    /\ got = <<written[1], written[3]>>

(***************************************************************************)
(* C10.  FindChunk resynchronisation.  With B the first block boundary     *)
(* after recoverable_pos and the source not failing, Recover returns true  *)
(* on a healthy reader at or beyond B.  When the block header at B can be  *)
(* read: previous_chunk = 0 with a valid hash leaves pos at B; otherwise a *)
(* valid header puts pos at B + next_chunk when next_chunk is not 0 and    *)
(* that is a possible chunk boundary, goes on beyond B + next_chunk when   *)
(* it is not a possible chunk boundary, and goes on to B + kBlockSize or   *)
(* beyond when next_chunk is 0; a header whose hash is wrong makes Recover *)
(* go on to the next block instead of failing.                             *)
(***************************************************************************)
ResyncBlock == recoverable_pos_ + RemainingInBlock(recoverable_pos_)

C10_AtBlock(B) ==
    /\ ret' /\ ~failed_' /\ ~closed_' /\ recoverable_' = "kNo"
    /\ IsBlockBoundary(B) /\ B > recoverable_pos_ /\ B > pos_
    /\ B - recoverable_pos_ <= kBlockSize
    /\ pos_' >= B
    /\ B + BlockHeaderSize > avail => pos_' = B
    /\ B + BlockHeaderSize <= avail =>
           LET previous_chunk == file[B + 2]
               next_chunk == file[B + 3]
           IN  IF ~BlockHeaderHashOk(B) THEN pos_' >= B + kBlockSize
               ELSE IF previous_chunk = 0 THEN pos_' = B
               ELSE IF next_chunk = 0 THEN pos_' >= B + kBlockSize
               ELSE IF IsPossibleChunkBoundary(B + next_chunk)
               THEN pos_' = B + next_chunk
               ELSE pos_' > B + next_chunk

C10_FindChunkResync ==
    [][(op' = "Recover" /\ recoverable_ = "kFindChunk" /\ ~src_err) =>
          C10_AtBlock(ResyncBlock)]_vars

\* Recover has followed a valid block header's next_chunk to a chunk that
\* reads back intact.
C10_Witness ==
    /\ op = "Recover" /\ ret /\ Healthy
    /\ skipped_in = 0 /\ skipped_bytes > 0
    /\ block_header_[2] # 0 /\ block_header_[3] # 0
    /\ pos_ = (pos_ - (pos_ % kBlockSize)) + block_header_[3]
    /\ pos_ < Len(file)
    /\ ClassifyChunk(pos_) = "ok"
    /\ defect.kind = "flip"

(***************************************************************************)
(* C11.  When the last read stopped at the end of the file on a healthy    *)
(* byte source with words consumed beyond pos, Close fails with            *)
(* kReportSkippedBytes and the count byte source position - pos.  Recover  *)
(* then returns true and adds exactly that count; the reader stays closed  *)
(* and no read succeeds any more.                                          *)
(***************************************************************************)
ReadOps == {"ReadChunk", "PullChunkHeader"}

StoppedInChunk ==
    /\ op \in ReadOps /\ ~ret /\ Healthy
    /\ byte_reader_.healthy
    /\ byte_reader_.pos > pos_

C11_Close ==
    (op' = "Close" /\ StoppedInChunk) =>
        /\ ~ret' /\ closed_' /\ failed_'
        /\ recoverable_' = "kReportSkippedBytes"
        /\ recoverable_pos_' = byte_reader_.pos - pos_
        /\ recoverable_pos_' = avail - pos_

C11_Recover ==
    (op' = "Recover" /\ recoverable_ = "kReportSkippedBytes") =>
        /\ ret' /\ closed_' /\ ~failed_'
        /\ recoverable_' = "kNo"
        /\ skipped_bytes' = Counted(skipped_in', recoverable_pos_)

C11_NoFurtherReads ==
    (closed_ /\ op' \in ReadOps \cup {"Recover"}
         /\ recoverable_ # "kReportSkippedBytes") =>
        (~ret' /\ closed_' /\ chunk' = chunk /\ got' = got)

C11_ReportSkippedBytes ==
    [][C11_Close /\ C11_Recover /\ C11_NoFurtherReads]_vars

\* A file cut two words into the header of its second chunk: the closed
\* reader has reported two skipped words.
C11_Witness ==
    /\ defect.kind = "truncated"
    /\ Len(written) >= 2
    /\ defect.at = ChunkStarts(0, written)[2] + 2
    /\ op = "Recover" /\ ret /\ closed_ /\ ~failed_
    /\ skipped_in = 0 /\ skipped_bytes = 2

(***************************************************************************)
(* C12.  Truncation is not corruption.  Over a file that ends early on a   *)
(* healthy byte source, a read of a chunk the file does not hold whole     *)
(* returns false, the reader stays healthy with no recovery recorded and   *)
(* pos still at the beginning of the incomplete chunk; Recover returns     *)
(* false.                                                                  *)
(***************************************************************************)
C12_State ==
    (defect.kind = "truncated" /\ ~closed_) =>
        (~failed_ /\ recoverable_ = "kNo")

C12_Read ==
    (defect.kind = "truncated" /\ Healthy
         /\ \/ op' = "ReadChunk" /\ ClassifyChunk(pos_) = "short"
            \/ op' = "PullChunkHeader" /\ ClassifyHeader(pos_) = "short") =>
        /\ ~ret' /\ ~failed_' /\ ~closed_'
        /\ recoverable_' = "kNo"
        /\ pos_' = pos_
        /\ chunk' = chunk

C12_Recover ==
    (defect.kind = "truncated" /\ op' = "Recover" /\ ~closed_) =>
        (~ret' /\ ~failed_' /\ pos_' = pos_ /\ skipped_bytes' = skipped_in')

C12_TruncationNotCorruption ==
    [][C12_State' /\ C12_Read /\ C12_Recover]_vars

\* The file ended in the middle of a payload: Recover has returned false
\* on the healthy reader, which holds the words read so far.
C12_Witness ==
    /\ defect.kind = "truncated"
    /\ op = "Recover" /\ ~ret /\ Healthy
    /\ pos_ > 0
    /\ chunk_.data # <<>>
    /\ Len(chunk_.data) < HeaderDataSize(chunk_.header)
    /\ byte_reader_.pos = avail

(***************************************************************************)
(* C13.  A byte source failure is fatal.  When the byte reader becomes     *)
(* unhealthy during CheckFileFormat, PullChunkHeader, ReadChunk, Seek or a *)
(* SeekToChunk variant, the call returns false and the ChunkReader is      *)
(* failed with no recovery recorded; Recover then returns false and the    *)
(* reader stays failed as it was.                                          *)
(***************************************************************************)
SourceOps ==
    {"CheckFileFormat", "PullChunkHeader", "ReadChunk", "Seek",
     "SeekToChunkAfter", "SeekToChunkContaining"}

C13_SourceFails ==
    (op' \in SourceOps /\ Healthy
         /\ byte_reader_.healthy /\ ~byte_reader_'.healthy) =>
        /\ ~ret' /\ failed_' /\ ~closed_'
        /\ recoverable_' = "kNo"
        /\ chunk' = chunk

C13_RecoverRefused ==
    (op' = "Recover" /\ op \in SourceOps /\ failed_
         /\ ~byte_reader_.healthy /\ recoverable_ = "kNo") =>
        (~ret' /\ failed_' /\ Self' = Self /\ skipped_bytes' = skipped_in')

C13_SourceFailureFatal == [][C13_SourceFails /\ C13_RecoverRefused]_vars

(***************************************************************************)
(* C14.  Seek(P) on a healthy reader with P a possible chunk boundary      *)
(* returns true with pos = P and nothing of a chunk in progress; when P is *)
(* not the beginning of a chunk, the next PullChunkHeader or ReadChunk     *)
(* fails with kFindChunk rather than returning a chunk.                    *)
(***************************************************************************)
ChunkStartSet == {Starts[i] : i \in 1..Len(written)}

C14_Seek ==
    (op' = "Seek" /\ Healthy /\ IsPossibleChunkBoundary(arg')
         /\ byte_reader_'.healthy) =>
        /\ ret' /\ ~failed_' /\ ~closed_'
        /\ pos_' = arg'
        /\ chunk_'.data = <<>>
        /\ ~current_chunk_is_incomplete_'
        /\ byte_reader_'.pos = Min(arg', avail)
        /\ recoverable_' = "kNo"

SoughtOffChunk ==
    /\ op = "Seek" /\ ret /\ Healthy
    /\ pos_ = arg
    /\ arg \notin ChunkStartSet

C14_NextReadFindChunk ==
    (SoughtOffChunk /\ op' \in ReadOps) =>
        (~ret' /\ failed_' /\ recoverable_' = "kFindChunk")

C14_SeekAsClaimed == [][C14_Seek /\ C14_NextReadFindChunk]_vars

(***************************************************************************)
(* C15.  SeekToChunkAfter(P) on a healthy reader over an undamaged file of *)
(* the writer, for every P up to the beginning of the last chunk, returns  *)
(* true with pos at the beginning of the first chunk that begins at or     *)
(* after P, also when P lies in a block in which no chunk begins.          *)
(***************************************************************************)
LastStart == Starts[Len(written)]

\* The beginning of the first chunk at or after p, for p <= LastStart.
FirstStartFrom(p) ==
    CHOOSE s \in ChunkStartSet :
        s >= p /\ \A t \in ChunkStartSet : t >= p => s <= t

C15_SeekToChunkAfterStep ==
    (op' = "SeekToChunkAfter" /\ Healthy /\ arg' <= LastStart) =>
        (ret' /\ ~failed_' /\ pos_' = FirstStartFrom(arg'))

C15_SeekToChunkAfter == [][C15_SeekToChunkAfterStep]_vars

(***************************************************************************)
(* C16.  SeekToChunkContaining(P) on a healthy reader over an undamaged    *)
(* file of the writer positions the reader at the chunk whose range        *)
(* [pos, pos + num_records) contains P: it returns true with pos at the    *)
(* beginning of that chunk.                                                *)
(***************************************************************************)
\* The k-th written chunk contains position p.
ChunkContains(k, p) ==
    /\ Starts[k] <= p
    /\ p < Starts[k] + HeaderNumRecords(written[k].header)

C16_SeekToChunkContainingStep ==
    \A k \in 1..Len(written) :
        (op' = "SeekToChunkContaining" /\ Healthy /\ ChunkContains(k, arg')) =>
            (ret' /\ ~failed_' /\ pos_' = Starts[k])

C16_SeekToChunkContaining == [][C16_SeekToChunkContainingStep]_vars

(***************************************************************************)
(* C17.  Seek equivalence: from every state of a healthy reader over an    *)
(* undamaged file and for every P up to the beginning of the last chunk,   *)
(* SeekToChunkAfter(P) followed by ReadChunk returns the same chunk as     *)
(* Seek(s) followed by ReadChunk, s being the beginning of the first chunk *)
(* at or after P.                                                          *)
(***************************************************************************)
C17_SameRead(a, b) == a.ok = b.ok /\ (a.ok => a.chunk = b.chunk)

C17_SeekEquivalenceStep ==
    (op' = "SeekToChunkAfter" /\ Healthy /\ arg' <= LastStart) =>
        C17_SameRead(
            ReadChunk(SeekToChunkAfter(Self, arg').r, chunk),
            ReadChunk(Seek(Self, FirstStartFrom(arg')).r, chunk))

C17_SeekEquivalence == [][C17_SeekEquivalenceStep]_vars

(***************************************************************************)
(* C18.  As claimed: CheckFileFormat on a healthy reader returns true if   *)
(* and only if the file begins with a valid signature chunk, wherever the  *)
(* reader is positioned.                                                   *)
(***************************************************************************)
BeginsWithSignature == ClassifyHeader(0) = "ok"

C18_AnywhereStep ==
    (op' = "CheckFileFormat" /\ Healthy) => (ret' <=> BeginsWithSignature)

C18_CheckFileFormatAnywhere == [][C18_AnywhereStep]_vars

(***************************************************************************)
(* C18, amended.  CheckFileFormat on a healthy reader looks at the chunk   *)
(* header at the reader's position and leaves the position alone: it       *)
(* returns true if and only if that header is whole in the file, the block *)
(* headers in its extent are valid and agree with the position, and its    *)
(* header hash is right.  With the reader at 0 the header must also be     *)
(* that of a signature chunk, so there it returns true if and only if the  *)
(* file begins with a valid block header and a valid signature chunk.      *)
(***************************************************************************)
C18_HereStep ==
    (op' = "CheckFileFormat" /\ Healthy) =>
        /\ ret' <=> (ClassifyHeader(pos_) = "ok")
        /\ pos_' = pos_
        /\ pos_ = 0 => (ret' <=> BeginsWithSignature)
        /\ ret' => (~failed_' /\ chunk_'.header = FileHeaderAt(pos_))

C18_CheckFileFormatHere == [][C18_HereStep]_vars

\* CheckFileFormat has returned false at the end of an undamaged file, which
\* begins with a valid signature chunk.
C18_Witness ==
    /\ op = "CheckFileFormat" /\ ~ret /\ Healthy
    /\ defect.kind = "none"
    /\ BeginsWithSignature
    /\ pos_ = Len(file)

\* CheckFileFormat has returned true at the beginning of a file.
C18_WitnessBeginning ==
    /\ op = "CheckFileFormat" /\ ret
    /\ pos_ = 0
    /\ BeginsWithSignature

(***************************************************************************)
(* C19.  As claimed: on the file that holds the signature chunk alone,     *)
(* CheckFileFormat returns true and the ReadChunk that follows returns     *)
(* false with the reader healthy.                                          *)
(***************************************************************************)
SignatureOnly == written = <<SignatureChunk>> /\ defect.kind = "none"

C19_Checked ==
    /\ SignatureOnly
    /\ op = "CheckFileFormat" /\ ret /\ Healthy
    /\ pos_ = 0

C19_CheckStep ==
    (SignatureOnly /\ op' = "CheckFileFormat" /\ Healthy /\ pos_ = 0) =>
        (ret' /\ ~failed_' /\ pos_' = 0)

C19_EndOfFileStep ==
    (C19_Checked /\ op' = "ReadChunk") =>
        (~ret' /\ ~failed_' /\ ~closed_')

C19_SignatureHidden == [][C19_CheckStep /\ C19_EndOfFileStep]_vars

(***************************************************************************)
(* C19, amended.  On the file that holds the signature chunk alone (the    *)
(* block header of block 0 and the signature chunk header),                *)
(* CheckFileFormat returns true; the ReadChunk that follows returns true   *)
(* with the signature chunk and leaves pos at the end of the file; the     *)
(* ReadChunk after that one returns false with the reader healthy and      *)
(* yields no chunk.                                                        *)
(***************************************************************************)
C19_SignatureStep ==
    (C19_Checked /\ op' = "ReadChunk") =>
        /\ ret' /\ ~failed_' /\ ~closed_'
        /\ chunk' = SignatureChunk
        /\ pos_' = Len(file)

C19_AfterSignatureStep ==
    (SignatureOnly /\ Healthy /\ pos_ = Len(file) /\ op' = "ReadChunk") =>
        /\ ~ret' /\ ~failed_' /\ ~closed_'
        /\ chunk' = chunk
        /\ pos_' = pos_

C19_SignatureSurfaced ==
    [][C19_CheckStep /\ C19_SignatureStep /\ C19_AfterSignatureStep]_vars

\* The ReadChunk after a CheckFileFormat has returned the signature chunk of
\* the signature-only file: the header had been read by the check, the read
\* found the byte reader at the end of the file already.
C19_Witness ==
    /\ SignatureOnly
    /\ op = "ReadChunk" /\ ret /\ Healthy
    /\ chunk = SignatureChunk
    /\ got = <<SignatureChunk>>
    /\ pos_ = Len(file)

(***************************************************************************)
(* C20.  Ordering: under ReadChunk and Recover (and PullChunkHeader) pos   *)
(* never decreases, and a successful ReadChunk returns the chunk that      *)
(* begins at the pos it was called at and leaves pos strictly greater, so  *)
(* the file offsets of the chunks returned are strictly increasing.        *)
(***************************************************************************)
C20_PosNeverDecreases ==
    (op' \in {"ReadChunk", "PullChunkHeader", "Recover"}) => pos_' >= pos_

C20_ReturnedFromPos ==
    (op' = "ReadChunk" /\ ret') =>
        /\ pos_' > pos_
        /\ chunk'.header = FileHeaderAt(pos_)
        /\ pos_' = ChunkEnd(chunk'.header, pos_)
        /\ got' = Append(got, chunk')

C20_Ordering == [][C20_PosNeverDecreases /\ C20_ReturnedFromPos]_vars

\* Two chunks have been returned with a recovery in between: the chunk after
\* the signature was damaged and skipped, the last chunk of the file was
\* returned from a later offset.
C20_Witness ==
    /\ op = "ReadChunk" /\ ret
    /\ Len(written) = 3
    /\ got = <<written[1], written[3]>>
    /\ pos_ = Len(file)
    /\ pos_ > Starts[3]

(***************************************************************************)
(* C21.  Every read and seek operation called on a failed or closed reader *)
(* returns false and leaves pos, the chunk in progress, the recovery       *)
(* descriptor and the byte reader with its position as they were; the      *)
(* caller's chunk is not written either.                                   *)
(***************************************************************************)
GuardedOps ==
    {"CheckFileFormat", "PullChunkHeader", "ReadChunk",
     "Seek", "SeekToChunkContaining", "SeekToChunkAfter"}

C21_ShortCircuitStep ==
    (op' \in GuardedOps /\ ~Healthy) =>
        /\ ~ret'
        /\ failed_' = failed_ /\ closed_' = closed_
        /\ pos_' = pos_
        /\ chunk_' = chunk_
        /\ current_chunk_is_incomplete_' = current_chunk_is_incomplete_
        /\ block_header_' = block_header_
        /\ recoverable_' = recoverable_
        /\ recoverable_pos_' = recoverable_pos_
        /\ byte_reader_' = byte_reader_
        /\ chunk' = chunk

C21_ShortCircuit == [][C21_ShortCircuitStep]_vars

\* A searching seek has been refused on a reader that had failed on the data
\* hash of a chunk, the descriptor of that failure still in place.
C21_Witness ==
    /\ op \in {"SeekToChunkAfter", "SeekToChunkContaining"} /\ ~ret
    /\ failed_ /\ ~closed_
    /\ recoverable_ = "kHaveChunk"
    /\ recoverable_pos_ > pos_

\* A read has been refused on a closed reader.
C21_WitnessClosed ==
    /\ op \in {"ReadChunk", "PullChunkHeader", "CheckFileFormat"} /\ ~ret
    /\ closed_

(***************************************************************************)
(* C22.  No chunk is returned whose extent contains a block header with a  *)
(* wrong hash or with a previous_chunk other than the distance from the    *)
(* beginning of the chunk to the block boundary, also when the reading was *)
(* resumed after the data at hand had ended inside a block header.         *)
(***************************************************************************)
C22_BlockHeadersVerifiedStep ==
    (op' = "ReadChunk" /\ ret') =>
        \A b \in BoundariesIn(pos_, pos_') :
            BlockHeaderHashOk(b) /\ BlockHeaderPrevOk(b, pos_)

C22_BlockHeadersVerified == [][C22_BlockHeadersVerifiedStep]_vars

(***************************************************************************)
(* C23.  A read that meets, in the extent of the chunk at pos, a block     *)
(* header with a wrong hash or with a previous_chunk that contradicts pos  *)
(* fails with kFindChunk, recoverable_pos being the position right after   *)
(* that block header, which is where the byte reader stands.               *)
(***************************************************************************)
\* Where the part of the chunk at p that a read goes through ends: the whole
\* chunk for ReadChunk, its header for PullChunkHeader.
C23_ReadEnd(name, p) ==
    IF name = "ReadChunk" /\ ClassifyHeader(p) = "ok"
    THEN ChunkEnd(FileHeaderAt(p), p)
    ELSE HeaderEnd(p)

C23_BadBoundaries(name, p) ==
    {b \in BoundariesIn(p, C23_ReadEnd(name, p)) :
        ~BlockHeaderHashOk(b) \/ ~BlockHeaderPrevOk(b, p)}

C23_Cause(name, p) ==
    IF name = "ReadChunk" THEN ClassifyChunk(p) ELSE ClassifyHeader(p)

C23_BlockHeaderFailureStep ==
    (/\ op' \in ReadOps /\ Healthy
     /\ C23_Cause(op', pos_) \in {"block_header_hash", "previous_chunk"}) =>
        /\ ~ret' /\ failed_'
        /\ recoverable_' = "kFindChunk"
        /\ \E b \in C23_BadBoundaries(op', pos_) :
              /\ \A x \in C23_BadBoundaries(op', pos_) : b <= x
              /\ recoverable_pos_' = b + BlockHeaderSize
              /\ byte_reader_'.pos = b + BlockHeaderSize
        /\ pos_' = pos_

C23_BlockHeaderFailure == [][C23_BlockHeaderFailureStep]_vars

\* A read has failed on the damaged hash of a block header in the middle of
\* a chunk.
C23_Witness ==
    /\ op = "ReadChunk" /\ ~ret /\ failed_
    /\ recoverable_ = "kFindChunk"
    /\ defect.kind = "flip"
    /\ \E b \in BoundariesIn(pos_ + 1, Len(file)) :
          /\ ~BlockHeaderHashOk(b)
          /\ recoverable_pos_ = b + BlockHeaderSize

\* A read has failed on a forged previous_chunk in the middle of a chunk.
C23_WitnessPreviousChunk ==
    /\ op = "ReadChunk" /\ ~ret /\ failed_
    /\ recoverable_ = "kFindChunk"
    /\ defect.kind = "forge"
    /\ \E b \in BoundariesIn(pos_ + 1, Len(file)) :
          /\ BlockHeaderHashOk(b) /\ ~BlockHeaderPrevOk(b, pos_)
          /\ recoverable_pos_ = b + BlockHeaderSize

(***************************************************************************)
(* C24.  As claimed: a read of a chunk whose header, with both hashes      *)
(* right, carries a chunk type outside the format fails with kFindChunk,   *)
(* at every chunk position.                                                *)
(***************************************************************************)
\* The reader is healthy at the beginning of the k-th chunk written, none of
\* it read yet.
C24_AtChunk(k) ==
    /\ Healthy
    /\ k \in 1..Len(written)
    /\ pos_ = Starts[k]
    /\ byte_reader_.pos = pos_

C24_UnknownType(k) ==
    HeaderChunkType(written[k].header) \notin CanonicalChunkTypes

C24_Rejected ==
    /\ ~ret' /\ failed_'
    /\ recoverable_' = "kFindChunk"
    /\ recoverable_pos_' = byte_reader_'.pos
    /\ pos_' = pos_
    /\ chunk' = chunk

C24_EverywhereStep ==
    \A k \in 1..Len(written) :
        (op' \in ReadOps /\ C24_AtChunk(k) /\ C24_UnknownType(k)) =>
            C24_Rejected

C24_UnknownTypeRejectedEverywhere == [][C24_EverywhereStep]_vars

(***************************************************************************)
(* C24, amended.  The chunk reader looks at the chunk type only at offset  *)
(* 0: there a header that is not the signature header, its chunk type      *)
(* outside the format included, makes the read fail with kFindChunk.  At   *)
(* every other chunk position a chunk with both hashes right is returned   *)
(* by ReadChunk whatever its chunk type, the type handed on unchanged.     *)
(***************************************************************************)
C24_AtBeginningStep ==
    (op' \in ReadOps /\ C24_AtChunk(1)
         /\ ~IsSignatureHeader(written[1].header)) =>
        C24_Rejected

C24_ElsewhereStep ==
    \A k \in 2..Len(written) :
        (op' = "ReadChunk" /\ C24_AtChunk(k)) =>
            /\ ret' /\ ~failed_'
            /\ chunk' = written[k]
            /\ pos_' = ChunkEnd(written[k].header, pos_)

C24_ChunkTypeChecked == [][C24_AtBeginningStep /\ C24_ElsewhereStep]_vars

\* A chunk of a type outside the format has been returned by ReadChunk.
C24_Witness ==
    /\ op = "ReadChunk" /\ ret
    /\ HeaderChunkType(chunk.header) = kUnknownType
    /\ Hash(chunk.data) = HeaderDataHash(chunk.header)
    /\ ComputedHeaderHash(chunk.header) = chunk.header[1]
    /\ pos_ > 0

\* A read at offset 0 has failed on a header of a type outside the format,
\* every other field being that of a signature header.
C24_WitnessBeginning ==
    /\ op \in ReadOps /\ ~ret /\ failed_
    /\ recoverable_ = "kFindChunk"
    /\ pos_ = 0
    /\ defect.kind = "no_signature"
    /\ HeaderChunkType(written[1].header) = kUnknownType
    /\ written[1].data = <<>>

(***************************************************************************)
(* C25.  Every block header of the writer's file has a right hash,         *)
(* previous_chunk = B - start(C), and next_chunk = end(C) - B when that is *)
(* less than a block, else 0, C being the chunk in which the boundary B    *)
(* lies; and a searching seek that returns true has landed on the          *)
(* beginning of a chunk (or on the end of the file, where the next chunk   *)
(* will begin).                                                            *)
(***************************************************************************)
\* The chunk written in whose extent position b lies.
C25_ChunkAt(b) ==
    CHOOSE k \in 1..Len(written) : Starts[k] <= b /\ b < NextStart(k)

C25_WriterPointers ==
    \A b \in BoundariesIn(0, Len(file)) :
        LET k == C25_ChunkAt(b)
        IN  /\ BlockHeaderHashOk(b)
            /\ file[b + 2] = b - Starts[k]
            /\ file[b + 3] = IF NextStart(k) - b < kBlockSize
                             THEN NextStart(k) - b
                             ELSE 0

C25_SeekLandsStep ==
    (op' \in {"SeekToChunkAfter", "SeekToChunkContaining"}
         /\ Healthy /\ ret') =>
        pos_' \in ChunkStartSet \cup {Len(file)}

C25_PointersLeadToChunks == [][C25_WriterPointers /\ C25_SeekLandsStep]_vars

(***************************************************************************)
(* Varints (riegeli/bytes/reader_utils.cc).                                *)
(*                                                                         *)
(* Granularity.  A byte of a varint carries kPayloadBits bits of the value *)
(* below one continuation bit: 3 + 1 bits here for the 7 + 1 of the        *)
(* source, so a byte is a number below 16 and the continuation bit is 8    *)
(* (0x80 in the source).  The two integer widths are scaled with it: 5     *)
(* bits for uint32_t and 7 bits for uint64_t, which keeps what matters of  *)
(* the source's 32 = 4 * 7 + 4 and 64 = 9 * 7 + 1: the last byte of a      *)
(* longest encoding has room for more bits than the width has left.        *)
(***************************************************************************)
kPayloadBits == 3
kContinuationBit == 2 ^ kPayloadBits
Bytes == 0..(2 * kContinuationBit - 1)
kBits32 == 5
kBits64 == 7

\* kMaxLengthVarint32() and kMaxLengthVarint64(): the bytes of the longest
\* encoding of a value of the width.
kMaxLengthVarint(bits) == (bits + kPayloadBits - 1) \div kPayloadBits

\* A Reader over a string: Pull() fails at the end of the data.
StringReader(data) == [data |-> data, cursor |-> 0]
Pull(src) == src.cursor < Len(src.data)
NextByte(src) == src.data[src.cursor + 1]
Advance(src) == [src EXCEPT !.cursor = @ + 1]

\* x << n in an unsigned integer of the width, for x >= -1.
ShiftLeft(x, n, bits) == ((x + 2 ^ bits) * 2 ^ n) % 2 ^ bits

\* What follows the loop: the check of the final byte.
VarintLoopEndLenient(src, acc, byte) == [ok |-> TRUE, data |-> acc, src |-> src]

VarintLoopEnd(src, acc, byte) ==
    IF byte = 0
    THEN \* Overlong representation.
         [ok |-> FALSE, data |-> 0, src |-> src]
    ELSE [ok |-> TRUE, data |-> acc, src |-> src]

\* The do-while loop over the bytes after the first: shift is the shift of
\* the byte read before.
RECURSIVE VarintLoop(_, _, _, _)
VarintLoop(src, acc, shift, bits) ==
    IF ~Pull(src)
    THEN [ok |-> FALSE, data |-> 0, src |-> src]
    ELSE LET byte == NextByte(src)
             src1 == Advance(src)
             shift1 == shift + kPayloadBits
             acc1 == (acc + ShiftLeft(byte - 1, shift1, bits)) % 2 ^ bits
             last == (kMaxLengthVarint(bits) - 1) * kPayloadBits
         IN  IF shift1 = last
             THEN \* Last possible byte.
                  IF byte >= 2 ^ (bits - last)
                  THEN [ok |-> FALSE, data |-> 0, src |-> src1]
                  ELSE VarintLoopEnd(src1, acc1, byte)
             ELSE IF byte >= kContinuationBit
                  THEN VarintLoop(src1, acc1, shift1, bits)
                  ELSE VarintLoopEnd(src1, acc1, byte)

ReadVarintSlow(src, bits) ==
    IF ~Pull(src)
    THEN [ok |-> FALSE, data |-> 0, src |-> src]
    ELSE LET acc == NextByte(src)
             src1 == Advance(src)
         IN  IF NextByte(src) >= kContinuationBit
             THEN VarintLoop(src1, acc, 0, bits)
             ELSE [ok |-> TRUE, data |-> acc, src |-> src1]

ReadVarint32Slow(src) == ReadVarintSlow(src, kBits32)

ReadVarint64Slow(src) == ReadVarintSlow(src, kBits64)

\* The reader under the objects checked on their own: constructed over a
\* file holding the signature, and never called.
IdleChunkReader ==
    /\ InitFile(<<>>, [kind |-> "none"])
    /\ InitReader(0)
    /\ InitCalls

\* The streams a varint is read from: every string of bytes up to one byte
\* longer than the longest encoding.
MaxVarintInput == kMaxLengthVarint(kBits64) + 1

VarintInputs == UNION {[1..n -> Bytes] : n \in 0..MaxVarintInput}

InitVarint ==
    /\ IdleChunkReader
    /\ NoMoreUnits
    /\ compressor = Absent
    /\ dest_ = Absent
    /\ appended = <<>>
    /\ fd_readers = Absent
    /\ fd_offset = 0
    /\ \E data \in VarintInputs :
          varint = [state |-> "ready", src |-> StringReader(data)]

ReadVarintDone(bits, res) ==
    /\ varint' = [state |-> "done", bits |-> bits, input |-> varint.src.data,
                  ok |-> res.ok, data |-> res.data, src |-> res.src]
    /\ UNCHANGED <<env, reader, caller, compressor, dest_, appended, fd_readers,
                   fd_offset, more_units>>

ReadVarint32SlowOp ==
    /\ varint.state = "ready"
    /\ \E res \in {ReadVarint32Slow(varint.src)} : ReadVarintDone(kBits32, res)

ReadVarint64SlowOp ==
    /\ varint.state = "ready"
    /\ \E res \in {ReadVarint64Slow(varint.src)} : ReadVarintDone(kBits64, res)

NextVarint == ReadVarint32SlowOp \/ ReadVarint64SlowOp

SpecVarint == InitVarint /\ [][NextVarint]_vars

(***************************************************************************)
(* C28  Varint decoding.                                                   *)
(***************************************************************************)
\* Unsigned LEB128: the payload bits of the value from the lowest up, the
\* continuation bit on every byte but the last, and no more bytes than the
\* value needs.
RECURSIVE Leb128(_)
Leb128(v) ==
    IF v < kContinuationBit
    THEN <<v>>
    ELSE <<kContinuationBit + (v % kContinuationBit)>>
         \o Leb128(v \div kContinuationBit)

IsPrefix(a, b) == Len(a) <= Len(b) /\ SubSeq(b, 1, Len(a)) = a

\* The values of the width whose canonical encoding the stream begins with.
C28_Encoded(input, bits) ==
    {v \in 0..(2 ^ bits - 1) : IsPrefix(Leb128(v), input)}

\* The first n bytes of the stream all carry the continuation bit.
C28_Continued(input, n) ==
    \A i \in 1..n : input[i] >= kContinuationBit

\* The stream ends inside a varint.
C28_EndsInside(input, bits) ==
    /\ Len(input) < kMaxLengthVarint(bits)
    /\ C28_Continued(input, Len(input))

\* The byte at the longest length has a bit outside the width, or the
\* continuation bit.
C28_LastByteOutside(input, bits) ==
    LET n == kMaxLengthVarint(bits)
    IN  /\ Len(input) >= n
        /\ C28_Continued(input, n - 1)
        /\ input[n] >= 2 ^ (bits - (n - 1) * kPayloadBits)

\* An encoding of more than one byte ends with a zero byte.
C28_FinalByteZero(input, bits) ==
    \E n \in 2..kMaxLengthVarint(bits) :
        /\ Len(input) >= n
        /\ C28_Continued(input, n - 1)
        /\ input[n] = 0

\* C28: ReadVarint32Slow and ReadVarint64Slow succeed exactly when the stream
\* begins with the canonical LEB128 encoding of a value of the width; they
\* then return that value and have consumed exactly that encoding, so that
\* the bytes accepted are a function of the value returned.  They fail on a
\* stream that ends inside a varint, on a byte at the longest length that
\* has a bit outside the width or the continuation bit, and on an encoding
\* of several bytes whose final byte is zero.
C28_VarintDecoding ==
    varint.state = "done" =>
        LET input == varint.input
            bits == varint.bits
        IN  /\ varint.ok <=> C28_Encoded(input, bits) # {}
            /\ varint.ok =>
                  /\ varint.data \in C28_Encoded(input, bits)
                  /\ SubSeq(input, 1, varint.src.cursor) = Leb128(varint.data)
            /\ C28_EndsInside(input, bits) => ~varint.ok
            /\ C28_LastByteOutside(input, bits) => ~varint.ok
            /\ C28_FinalByteZero(input, bits) => ~varint.ok

\* A 32-bit value of the longest encoding was decoded.
C28_Witness ==
    /\ varint.state = "done"
    /\ varint.bits = kBits32
    /\ varint.ok
    /\ varint.src.cursor = kMaxLengthVarint(kBits32)
    /\ varint.data = 2 ^ kBits32 - 1

\* A 64-bit stream was rejected for the zero byte that ends it.
C28_WitnessOverlong ==
    /\ varint.state = "done"
    /\ varint.bits = kBits64
    /\ ~varint.ok
    /\ C28_FinalByteZero(varint.input, varint.bits)
    /\ ~C28_LastByteOutside(varint.input, varint.bits)

(***************************************************************************)
(* Writers.  A byte is a number of Bytes, as for varints.                  *)
(***************************************************************************)
\* Object::Close() of a writer whose Done() has run: d is the writer after
\* Done().
Closed(w, d) ==
    IF w.closed_ THEN [w |-> w, ok |-> ~w.failed_]
    ELSE The({[w |-> [done EXCEPT !.closed_ = TRUE], ok |-> ~done.failed_]
              : done \in {d}})

(***************************************************************************)
(* ChainWriter (riegeli/bytes/chain_writer.cc): writes to a Chain, the     *)
(* buffer being the last bytes of the Chain itself.  cursor and limit      *)
(* count from the beginning of the buffer, which is at start_pos_.         *)
(***************************************************************************)
\* The bytes of a buffer not written yet.
kUninitialized == 15

\* The length of the buffer Chain::AppendBuffer() hands out.
kChainBufferSize == 2

ChainWriterConstruct(chain) ==
    [failed_ |-> FALSE, closed_ |-> FALSE, start_pos_ |-> Len(chain),
     cursor |-> 0, limit |-> 0, dest |-> chain]

available(w) == w.limit - w.cursor

DiscardBuffer(w) ==
    [w EXCEPT !.dest = SubSeq(@, 1, Len(@) - available(w))]

\* std::numeric_limits<size_t>::max(), the largest size of a Chain.
kSizeMax == 14

\* The buffer Chain::AppendBuffer() appends: no Chain grows beyond kSizeMax.
AppendBufferSize(chain) ==
    Max(0, Min(kChainBufferSize, kSizeMax - Len(chain)))

MakeBuffer(w) ==
    [w EXCEPT !.start_pos_ = Len(w.dest),
              !.dest = @ \o [i \in 1..AppendBufferSize(w.dest) |->
                                kUninitialized],
              !.cursor = 0,
              !.limit = AppendBufferSize(w.dest)]

\* cursor_ = start_; limit_ = start_; return FailOverflow();
FailOverflow(w) == [Fail(w) EXCEPT !.cursor = 0, !.limit = 0]

\* WriteSlow(absl::string_view), WriteSlow(std::string&&) and
\* WriteSlow(const Chain&).
ChainWriterWriteSlow(w, src) ==
    IF ~healthy(w) THEN [w |-> w, ok |-> FALSE]
    ELSE IF Len(src) > kSizeMax - (w.start_pos_ + w.cursor)
    THEN [w |-> FailOverflow(w), ok |-> FALSE]
    ELSE LET w1 == DiscardBuffer(w)
             w2 == [w1 EXCEPT !.dest = @ \o src]
         IN  [w |-> MakeBuffer(w2), ok |-> TRUE]

\* Writer::Write(string_view): into the buffer when it has the room.
ChainWriterWrite(w, src) ==
    IF Len(src) <= available(w)
    THEN LET at == w.start_pos_ + w.cursor
         IN  [w |-> [w EXCEPT !.dest = [i \in 1..Len(@) |->
                                   IF i > at /\ i <= at + Len(src)
                                   THEN src[i - at] ELSE @[i]],
                              !.cursor = @ + Len(src)],
              ok |-> TRUE]
    ELSE ChainWriterWriteSlow(w, src)

\* Writer::Done() lets go of the buffer.
ChainWriterDone(w) ==
    LET w1 == IF healthy(w)
              THEN LET discarded == DiscardBuffer(w)
                   IN  [discarded EXCEPT !.start_pos_ = Len(discarded.dest)]
              ELSE w
    IN  [w1 EXCEPT !.cursor = 0, !.limit = 0]

ChainWriterClose(w) == Closed(w, ChainWriterDone(w))

(***************************************************************************)
(* The encoders of the codecs.  The libraries are outside the source; an   *)
(* encoder is modelled by what the writer relies on: it takes all the      *)
(* input given, it hands out the blob of the input taken so far piece by   *)
(* piece when it chooses to (eager) and in full when finished, and it may  *)
(* fail (fails).  The blob is a mark of the codec, the input transformed   *)
(* byte by byte, and an end mark.                                          *)
(***************************************************************************)
kBlobEnd == 14

BlobMark(type) == IF type = "kBrotli" THEN 11 ELSE 13

BlobByte(type, b) == IF type = "kBrotli" THEN 15 - b ELSE (b + 7) % 16

BlobOpen(type, taken) ==
    <<BlobMark(type)>> \o [i \in 1..Len(taken) |-> BlobByte(type, taken[i])]

Blob(type, taken) == BlobOpen(type, taken) \o <<kBlobEnd>>

NewEncoder == [taken |-> <<>>, emitted |-> 0]

EncoderChoices == [fails : BOOLEAN, eager : BOOLEAN]

\* BrotliEncoderCompressStream() followed by BrotliEncoderTakeOutput().
CompressStream(enc, type, finish, input, choice) ==
    LET taken == enc.taken \o input
        full == IF finish THEN Blob(type, taken) ELSE BlobOpen(type, taken)
        upto == IF finish \/ choice.eager THEN Len(full) ELSE enc.emitted
    IN  [ok |-> ~choice.fails,
         enc |-> [taken |-> taken, emitted |-> upto],
         out |-> SubSeq(full, enc.emitted + 1, upto)]

(***************************************************************************)
(* BrotliWriter (riegeli/bytes/brotli_writer.cc), a BufferedWriter over    *)
(* the ChainWriter it owns.  ZstdWriter, which is outside the source, is   *)
(* taken to be the same writer over the other encoder.                     *)
(***************************************************************************)
kBufferSize == 2

BrotliWriterConstruct(type, dest) ==
    [failed_ |-> FALSE, closed_ |-> FALSE, type |-> type, start_pos_ |-> 0,
     buffer |-> <<>>, compressor_ |-> NewEncoder, dest |-> dest]

\* The for (;;) loop of WriteInternal: input is what is left of src, size is
\* src.size().
RECURSIVE WriteInternalLoop(_, _, _, _, _)
WriteInternalLoop(w, input, size, finish, choice) ==
    The({
        IF ~res.ok THEN [w |-> Fail(w), ok |-> FALSE]
        ELSE IF Len(res.out) > 0
        THEN The({
            IF ~wr.ok
            THEN [w |-> Fail([w EXCEPT !.compressor_ = res.enc, !.dest = wr.w]),
                  ok |-> FALSE]
            ELSE WriteInternalLoop([w EXCEPT !.compressor_ = res.enc,
                                             !.dest = wr.w],
                                   <<>>, size, finish, choice)
            : wr \in {ChainWriterWrite(w.dest, res.out)}})
        ELSE [w |-> [w EXCEPT !.compressor_ = res.enc, !.start_pos_ = @ + size],
              ok |-> TRUE]
        : res \in {CompressStream(w.compressor_, w.type, finish, input, choice)}})

WriteInternal(w, src, finish, choice) ==
    WriteInternalLoop(w, src, Len(src), finish, choice)

\* BufferedWriter::Write(): into the buffer when it has the room; otherwise
\* the buffer is written out, and src after it unless it fits the buffer.
BrotliWriterWrite(w, src, choice) ==
    IF ~healthy(w) THEN [w |-> w, ok |-> FALSE]
    ELSE IF Len(w.buffer) + Len(src) <= kBufferSize
    THEN [w |-> [w EXCEPT !.buffer = @ \o src], ok |-> TRUE]
    ELSE The({
             IF ~pushed.ok THEN pushed
             ELSE IF Len(src) >= kBufferSize
             THEN WriteInternal(pushed.w, src, FALSE, choice)
             ELSE [w |-> [pushed.w EXCEPT !.buffer = src], ok |-> TRUE]
             : pushed \in {IF w.buffer = <<>> THEN [w |-> w, ok |-> TRUE]
                           ELSE WriteInternal([w EXCEPT !.buffer = <<>>],
                                              w.buffer, FALSE, choice)}})

BrotliWriterPos(w) == w.start_pos_ + Len(w.buffer)

BrotliWriterDone(w, choice) ==
    The({
        The({[w2 EXCEPT !.buffer = <<>>]
             : w2 \in {IF healthy(w1)
                       THEN The({IF cl.ok THEN [w1 EXCEPT !.dest = cl.w]
                                 ELSE Fail([w1 EXCEPT !.dest = cl.w])
                                 : cl \in {ChainWriterClose(w1.dest)}})
                       ELSE \* dest_->Cancel()
                            [w1 EXCEPT !.dest = [ChainWriterDone(@) EXCEPT
                                                    !.closed_ = TRUE,
                                                    !.failed_ = TRUE]]}})
        : w1 \in {IF healthy(w)
                  THEN WriteInternal([w EXCEPT !.buffer = <<>>], w.buffer, TRUE,
                                     choice).w
                  ELSE w}})

BrotliWriterClose(w, choice) == Closed(w, BrotliWriterDone(w, choice))

(***************************************************************************)
(* The Writer a Compressor encodes to: any Writer, which fails when it has *)
(* no room for what is written (a full device, a size limit), having       *)
(* written what it had room for.                                           *)
(***************************************************************************)
DestWrite(d, src) ==
    IF ~healthy(d) THEN [w |-> d, ok |-> FALSE]
    ELSE IF Len(d.data) + Len(src) > d.room
    THEN [w |-> Fail([d EXCEPT !.data = @ \o SubSeq(src, 1, d.room - Len(@))]),
          ok |-> FALSE]
    ELSE [w |-> [d EXCEPT !.data = @ \o src], ok |-> TRUE]

\* Unsigned LEB128, as the varint decoders read it.
RECURSIVE EncodeVarint(_)
EncodeVarint(v) ==
    IF v < kContinuationBit
    THEN <<v>>
    ELSE <<kContinuationBit + (v % kContinuationBit)>>
         \o EncodeVarint(v \div kContinuationBit)

WriteVarint64(d, v) == DestWrite(d, EncodeVarint(v))

(***************************************************************************)
(* Compressor (riegeli/chunk_encoding/compressor.cc).  compressed_ is the  *)
(* Chain of the ChainWriter: writer_.dest of a ChainWriter, and            *)
(* writer_.dest.dest under a BrotliWriter or a ZstdWriter.                 *)
(***************************************************************************)
CompressionTypes == {"kNone", "kBrotli", "kZstd"}

\* Compressor::Reset(), and the constructor, which calls it.
CompressorReset(type) ==
    LET compressed_writer == ChainWriterConstruct(<<>>)
    IN  [failed_ |-> FALSE, closed_ |-> FALSE, compression_type |-> type,
         writer_ |-> IF type = "kNone" THEN compressed_writer
                     ELSE BrotliWriterConstruct(type, compressed_writer)]

compressed_(c) ==
    IF c.compression_type = "kNone" THEN c.writer_.dest
    ELSE c.writer_.dest.dest

ClearCompressed(c) ==
    IF c.compression_type = "kNone"
    THEN [c EXCEPT !.writer_.dest = <<>>]
    ELSE [c EXCEPT !.writer_.dest.dest = <<>>]

\* writer()->Write(), writer()->pos() and writer()->Close().
WriterWrite(c, src, choice) ==
    The({[c |-> [c EXCEPT !.writer_ = res.w], ok |-> res.ok]
         : res \in {IF c.compression_type = "kNone"
                    THEN ChainWriterWrite(c.writer_, src)
                    ELSE BrotliWriterWrite(c.writer_, src, choice)}})

WriterPos(c) ==
    IF c.compression_type = "kNone"
    THEN c.writer_.start_pos_ + c.writer_.cursor
    ELSE BrotliWriterPos(c.writer_)

WriterClose(c, choice) ==
    The({[c |-> [c EXCEPT !.writer_ = res.w], ok |-> res.ok]
         : res \in {IF c.compression_type = "kNone"
                    THEN ChainWriterClose(c.writer_)
                    ELSE BrotliWriterClose(c.writer_, choice)}})

CompressorDone(c, choice) ==
    The({ClearCompressed(IF cl.ok THEN cl.c ELSE Fail(cl.c))
         : cl \in {WriterClose(c, choice)}})

\* Object::Close() of the Compressor.
CompressorClose(c, choice) ==
    IF c.closed_ THEN [c |-> c, ok |-> ~c.failed_]
    ELSE The({[c |-> [d EXCEPT !.closed_ = TRUE], ok |-> ~d.failed_]
              : d \in {CompressorDone(c, choice)}})

\* Fault: the size is written before the payload of every type.
EncodeAndCloseAlwaysSized(c, d, choice) ==
    IF ~healthy(c) THEN [c |-> c, dest |-> d, ok |-> FALSE]
    ELSE The({
        IF ~cl.ok THEN [c |-> Fail(cl.c), dest |-> d, ok |-> FALSE]
        ELSE The({
            IF ~sized.ok
            THEN [c |-> Fail(cl.c), dest |-> sized.w, ok |-> FALSE]
            ELSE The({
                IF ~wr.ok
                THEN [c |-> Fail(cl.c), dest |-> wr.w, ok |-> FALSE]
                ELSE The({[c |-> done.c, dest |-> wr.w, ok |-> done.ok]
                          : done \in {CompressorClose(cl.c, choice)}})
                : wr \in {DestWrite(sized.w, compressed_(cl.c))}})
            : sized \in {WriteVarint64(d, WriterPos(c))}})
        : cl \in {WriterClose(c, choice)}})

\* Fault: a failed Compressor encodes all the same.
EncodeAndCloseUnguarded(c, d, choice) ==
    The({
        The({
            The({
                IF ~sized.ok \/ ~wr.ok
                THEN [c |-> Fail(cl.c), dest |-> wr.w, ok |-> FALSE]
                ELSE The({[c |-> done.c, dest |-> wr.w, ok |-> done.ok]
                          : done \in {CompressorClose(cl.c, choice)}})
                : wr \in {DestWrite(sized.w, compressed_(cl.c))}})
            : sized \in {IF c.compression_type # "kNone"
                         THEN WriteVarint64(d, WriterPos(c))
                         ELSE [w |-> d, ok |-> TRUE]}})
        : cl \in {WriterClose(c, choice)}})

EncodeAndClose(c, d, choice) ==
    IF ~healthy(c) THEN [c |-> c, dest |-> d, ok |-> FALSE]
    ELSE The({
        IF ~cl.ok THEN [c |-> Fail(cl.c), dest |-> d, ok |-> FALSE]
        ELSE The({
            IF ~sized.ok
            THEN [c |-> Fail(cl.c), dest |-> sized.w, ok |-> FALSE]
            ELSE The({
                IF ~wr.ok
                THEN [c |-> Fail(cl.c), dest |-> wr.w, ok |-> FALSE]
                ELSE The({[c |-> done.c, dest |-> wr.w, ok |-> done.ok]
                          : done \in {CompressorClose(cl.c, choice)}})
                : wr \in {DestWrite(sized.w, compressed_(cl.c))}})
            : sized \in {IF c.compression_type # "kNone"
                         THEN WriteVarint64(d, uncompressed_size)
                         ELSE [w |-> d, ok |-> TRUE]}})
        : cl \in {WriterClose(c, choice)}, uncompressed_size \in {WriterPos(c)}})

(***************************************************************************)
(* A Compressor of any type, appended to in pieces and encoded to a Writer *)
(* with some room, which may hold bytes already.                           *)
(***************************************************************************)
Pieces == {<<1>>, <<2, 3>>, <<4, 5, 6>>}

DestRooms == {0, 1, MaxAppended + 4}

InitCompressor ==
    /\ IdleChunkReader
    /\ NoMoreUnits
    /\ varint = Absent
    /\ fd_readers = Absent
    /\ fd_offset = 0
    /\ appended = <<>>
    /\ \E type \in CompressionTypes : compressor = CompressorReset(type)
    /\ \E room \in DestRooms : \E data \in {<<>>, <<7>>} :
          /\ Len(data) <= room
          /\ dest_ = [failed_ |-> FALSE, closed_ |-> FALSE, data |-> data,
                      room |-> room]

CompressorCalled(name, result) ==
    /\ op' = name
    /\ ret' = result
    /\ UNCHANGED <<env, reader, chunk, skipped_in, skipped_bytes, arg, got,
                   assert_failed, seeks, varint, fd_readers, fd_offset,
                   more_units>>

\* compressor.writer()->Write(piece)
AppendOp ==
    \E piece \in Pieces : \E choice \in EncoderChoices :
        /\ Len(appended) + Len(piece) <= MaxAppended
        /\ \E res \in {WriterWrite(compressor, piece, choice)} :
              /\ compressor' = res.c
              /\ appended' = IF res.ok THEN appended \o piece ELSE appended
              /\ CompressorCalled("Write", res.ok)
        /\ UNCHANGED dest_

EncodeAndCloseOp ==
    \E choice \in EncoderChoices :
        \E res \in {EncodeAndClose(compressor, dest_, choice)} :
            /\ compressor' = res.c
            /\ dest_' = res.dest
            /\ CompressorCalled("EncodeAndClose", res.ok)
            /\ UNCHANGED appended

CompressorCloseOp ==
    \E choice \in EncoderChoices :
        \E res \in {CompressorClose(compressor, choice)} :
            /\ compressor' = res.c
            /\ CompressorCalled("Compressor::Close", res.ok)
            /\ UNCHANGED <<dest_, appended>>

NextCompressor == AppendOp \/ EncodeAndCloseOp \/ CompressorCloseOp

SpecCompressor == InitCompressor /\ [][NextCompressor]_vars

(***************************************************************************)
(* C26  Compressor framing.                                                *)
(***************************************************************************)
\* What a Compressor of the type is to emit for the bytes appended.
C26_Framed(type, bytes) ==
    IF type = "kNone" THEN bytes
    ELSE Leb128(Len(bytes)) \o Blob(type, bytes)

\* An EncodeAndClose that returned true added to dest exactly the bytes
\* appended (type kNone), or the varint of their number and then the blob
\* of the codec for them (kBrotli, kZstd), and left the Compressor closed.
C26_FramingStep ==
    (op' = "EncodeAndClose" /\ ret') =>
        /\ dest_'.data
              = dest_.data \o C26_Framed(compressor.compression_type, appended)
        /\ healthy(dest_')
        /\ compressor'.closed_
        /\ ~compressor'.failed_

\* C26: EncodeAndClose(dest), when it succeeds, has written to dest exactly
\* the appended bytes if the compression type is kNone, and otherwise the
\* varint of the number of appended bytes followed by the codec's blob; the
\* Compressor is then closed.
C26_CompressorFraming == [][C26_FramingStep]_vars

\* Enough bytes for a varint of two bytes went through Brotli, to a Writer
\* that held a byte before.
C26_Witness ==
    /\ op = "EncodeAndClose"
    /\ ret
    /\ compressor.compression_type = "kBrotli"
    /\ Len(appended) >= kContinuationBit
    /\ dest_.data = <<7>> \o C26_Framed("kBrotli", appended)

\* Bytes appended went out as they are.
C26_WitnessNone ==
    /\ op = "EncodeAndClose"
    /\ ret
    /\ compressor.compression_type = "kNone"
    /\ Len(appended) >= 3
    /\ dest_.data = appended

(***************************************************************************)
(* C27  Compressor lifecycle and failures.                                 *)
(***************************************************************************)
\* Closed and failed are for good: no call opens or mends a Compressor.
C27_LifecycleStep ==
    /\ compressor.closed_ => compressor'.closed_
    /\ compressor.failed_ => compressor'.failed_
    /\ (op' \in {"EncodeAndClose", "Compressor::Close"} /\ ret')
          => compressor'.closed_ /\ ~compressor'.failed_

\* The codec writer had failed while bytes were appended, or fails while it
\* is finished: EncodeAndClose returns false, the Compressor is failed and
\* dest is as it was.
C27_CodecErrorStep ==
    (op' = "EncodeAndClose" /\ ~compressor.closed_ /\ compressor'.writer_.failed_)
        => /\ ~ret'
           /\ compressor'.failed_
           /\ dest_' = dest_

\* The write to dest fails: EncodeAndClose returns false and the Compressor
\* is failed.
C27_DestErrorStep ==
    (op' = "EncodeAndClose" /\ healthy(compressor) /\ ~healthy(dest_'))
        => /\ ~ret'
           /\ compressor'.failed_

\* EncodeAndClose of a failed Compressor returns false and leaves dest and
\* the Compressor as they were.
C27_AlreadyFailedStep ==
    (op' = "EncodeAndClose" /\ compressor.failed_)
        => /\ ~ret'
           /\ dest_' = dest_
           /\ compressor' = compressor

\* C27: a Compressor goes from open to closed and never back, and a failed
\* one stays failed; an error of the codec, while bytes are appended or
\* while the codec writer is finished, or a failed write to dest makes
\* EncodeAndClose return false and leaves the Compressor failed;
\* EncodeAndClose of a Compressor that has failed returns false and writes
\* nothing to dest.
C27_CompressorLifecycle ==
    [][/\ C27_LifecycleStep
       /\ C27_CodecErrorStep
       /\ C27_DestErrorStep
       /\ C27_AlreadyFailedStep]_vars

\* EncodeAndClose returned false for the codec writer, with bytes appended
\* and room in dest, and wrote nothing.
C27_Witness ==
    /\ op = "EncodeAndClose"
    /\ ~ret
    /\ compressor.failed_
    /\ compressor.writer_.failed_
    /\ appended # <<>>
    /\ dest_.room > MaxAppended
    /\ dest_.data = <<>>

\* EncodeAndClose returned false for a write to dest, after the size went
\* out.
C27_WitnessDest ==
    /\ op = "EncodeAndClose"
    /\ ~ret
    /\ compressor.failed_
    /\ ~compressor.writer_.failed_
    /\ dest_.failed_
    /\ dest_.data = Leb128(Len(appended))

(***************************************************************************)
(* FdReader (riegeli/bytes/fd_reader.cc), a BufferedReader over a file     *)
(* descriptor.  The buffer holds the bytes of the file that end at         *)
(* limit_pos_; cursor counts from the beginning of the buffer.  A byte of  *)
(* the file is one of its words here.                                      *)
(***************************************************************************)
kFdBufferSize == 2

\* fstat(): the size of the file.  A source that fails still has its size.
StatSize == IF src_err THEN Len(file) ELSE avail

\* Fault: read(fd, dest, max_length), which reads at the file offset of the
\* descriptor and moves it.
ReadAtFileOffset(file_offset, max_length, offset, short) ==
    IF file_offset >= avail
    THEN [result |-> IF src_err THEN -1 ELSE 0, bytes |-> <<>>,
          file_offset |-> file_offset]
    ELSE LET n == IF short THEN 1 ELSE Min(max_length, avail - file_offset)
         IN  [result |-> n,
              bytes |-> SubSeq(file, file_offset + 1, file_offset + n),
              file_offset |-> file_offset + n]

\* pread(fd, dest, max_length, offset): the bytes read, fewer than asked for
\* when the call chooses to (short) or the file ends; none at the end of the
\* file; an error where the source fails.  The file offset of the
\* descriptor plays no part and stays.
Pread(file_offset, max_length, offset, short) ==
    IF offset >= avail
    THEN [result |-> IF src_err THEN -1 ELSE 0, bytes |-> <<>>,
          file_offset |-> file_offset]
    ELSE LET n == IF short THEN 1 ELSE Min(max_length, avail - offset)
         IN  [result |-> n, bytes |-> SubSeq(file, offset + 1, offset + n),
              file_offset |-> file_offset]

FdReaderConstruct(sync_pos, file_offset) ==
    [failed_ |-> FALSE, closed_ |-> FALSE, sync_pos_ |-> sync_pos,
     limit_pos_ |-> IF sync_pos THEN file_offset ELSE 0,
     buffer |-> <<>>, cursor |-> 0]

FdStartPos(fd) == fd.limit_pos_ - Len(fd.buffer)

FdPos(fd) == FdStartPos(fd) + fd.cursor

ClearBuffer(fd) == [fd EXCEPT !.buffer = <<>>, !.cursor = 0]

\* FdReader::ReadInternal: the loop over pread() until min_length bytes are
\* read.  read is what the calls before have read.
RECURSIVE ReadInternalLoop(_, _, _, _, _, _)
ReadInternalLoop(fd, file_offset, read, min_length, max_length, short) ==
    The({
        IF res.result < 0
        THEN [fd |-> Fail(fd), ok |-> FALSE, bytes |-> read,
              file_offset |-> res.file_offset]
        ELSE IF res.result = 0
        THEN [fd |-> fd, ok |-> FALSE, bytes |-> read,
              file_offset |-> res.file_offset]
        ELSE IF res.result >= min_length
        THEN [fd |-> [fd EXCEPT !.limit_pos_ = @ + res.result], ok |-> TRUE,
              bytes |-> read \o res.bytes, file_offset |-> res.file_offset]
        ELSE ReadInternalLoop([fd EXCEPT !.limit_pos_ = @ + res.result],
                              res.file_offset, read \o res.bytes,
                              min_length - res.result, max_length - res.result,
                              short)
        : res \in {Pread(file_offset, max_length, fd.limit_pos_, short)}})

ReadInternal(fd, file_offset, min_length, max_length, short) ==
    ReadInternalLoop(fd, file_offset, <<>>, min_length, max_length, short)

\* BufferedReader::PullSlow(): the buffer is filled from limit_pos_ on.
PullSlow(fd, file_offset, short) ==
    IF ~healthy(fd) THEN [fd |-> fd, ok |-> FALSE, file_offset |-> file_offset]
    ELSE The({[fd |-> [rd.fd EXCEPT !.buffer = rd.bytes], ok |-> rd.ok,
               file_offset |-> rd.file_offset]
              : rd \in {ReadInternal(ClearBuffer(fd), file_offset, 1,
                                     kFdBufferSize, short)}})

\* Reader::Read(dest, length): from the buffer what it holds, then
\* BufferedReader::ReadSlow(): the rest straight from the file when it is
\* no shorter than a buffer, and through the buffer otherwise.
FdRead(fd, file_offset, length, short) ==
    LET held == Min(length, Len(fd.buffer) - fd.cursor)
        first == SubSeq(fd.buffer, fd.cursor + 1, fd.cursor + held)
        fd1 == [fd EXCEPT !.cursor = @ + held]
        rest == length - held
    IN  IF rest = 0
        THEN [fd |-> fd1, ok |-> TRUE, bytes |-> first,
              file_offset |-> file_offset]
        ELSE IF ~healthy(fd)
        THEN [fd |-> fd1, ok |-> FALSE, bytes |-> first,
              file_offset |-> file_offset]
        ELSE IF rest >= kFdBufferSize
        THEN The({[fd |-> rd.fd, ok |-> rd.ok, bytes |-> first \o rd.bytes,
                   file_offset |-> rd.file_offset]
                  : rd \in {ReadInternal(ClearBuffer(fd1), file_offset, rest,
                                         rest, short)}})
        ELSE The({[fd |-> [rd.fd EXCEPT !.buffer = rd.bytes,
                                        !.cursor = Min(rest, Len(rd.bytes))],
                   ok |-> rd.ok,
                   bytes |-> first \o SubSeq(rd.bytes, 1,
                                             Min(rest, Len(rd.bytes))),
                   file_offset |-> rd.file_offset]
                  : rd \in {ReadInternal(ClearBuffer(fd1), file_offset, rest,
                                         kFdBufferSize, short)}})

\* Fault: the position is set without a look at the size of the file.
SeekSlowAnywhere(fd, file_offset, new_pos, short) ==
    IF ~healthy(fd)
    THEN [fd |-> fd, ok |-> FALSE, file_offset |-> file_offset]
    ELSE The({[fd |-> pulled.fd, ok |-> TRUE, file_offset |-> pulled.file_offset]
              : pulled \in {PullSlow([ClearBuffer(fd) EXCEPT
                                         !.limit_pos_ = new_pos],
                                     file_offset, short)}})

SeekSlow(fd, file_offset, new_pos, short) ==
    IF ~healthy(fd)
    THEN [fd |-> fd, ok |-> FALSE, file_offset |-> file_offset]
    ELSE IF new_pos > fd.limit_pos_ /\ new_pos > StatSize
    THEN \* File ends.
         [fd |-> [ClearBuffer(fd) EXCEPT !.limit_pos_ = StatSize],
          ok |-> FALSE, file_offset |-> file_offset]
    ELSE The({[fd |-> pulled.fd, ok |-> TRUE, file_offset |-> pulled.file_offset]
              : pulled \in {PullSlow([ClearBuffer(fd) EXCEPT
                                         !.limit_pos_ = new_pos],
                                     file_offset, short)}})

\* Reader::Seek(new_pos): inside the buffer the cursor moves.
FdSeek(fd, file_offset, new_pos, short) ==
    IF new_pos >= FdStartPos(fd) /\ new_pos <= fd.limit_pos_
    THEN [fd |-> [fd EXCEPT !.cursor = new_pos - FdStartPos(fd)], ok |-> TRUE,
          file_offset |-> file_offset]
    ELSE SeekSlow(fd, file_offset, new_pos, short)

(***************************************************************************)
(* Two FdReaders over one descriptor of a file that holds the signature,   *)
(* whole, cut short or failing from some byte on.  Each reader keeps with  *)
(* it the last call made of it: op, arg, ret and the bytes a Read gave,    *)
(* and with a Read, in sought, the position of the Seek that returned true *)
(* just before it (-1 if there is none).  op and arg of the caller name    *)
(* the last call and the reader called.                                    *)
(***************************************************************************)
FdReaders == {1, 2}

MaxRead == 3

FdDefects ==
    {[kind |-> "none"]}
    \cup {[kind |-> k, at |-> t] : k \in {"truncated", "io_error"}, t \in {5}}

InitFdReaders ==
    /\ \E d \in FdDefects : InitFile(<<>>, d)
    /\ InitReader(0)
    /\ InitCalls
    /\ NoMoreUnits
    /\ compressor = Absent
    /\ dest_ = Absent
    /\ appended = <<>>
    /\ varint = Absent
    /\ fd_offset = 0
    /\ fd_readers = [i \in FdReaders |->
                        [fd |-> FdReaderConstruct(FALSE, fd_offset),
                         op |-> "FdReader", arg |-> 0, ret |-> TRUE,
                         bytes |-> <<>>, sought |-> -1]]

FdCalled(i, name, a, res, bytes) ==
    /\ fd_readers' = [fd_readers EXCEPT ![i] =
                         [fd |-> res.fd, op |-> name, arg |-> a,
                          ret |-> res.ok, bytes |-> bytes,
                          sought |-> IF /\ name = "FdReader::Read"
                                        /\ @.op = "FdReader::Seek"
                                        /\ @.ret
                                     THEN @.arg ELSE -1]]
    /\ fd_offset' = res.file_offset
    /\ op' = name
    /\ arg' = i
    /\ ret' = res.ok
    /\ UNCHANGED <<env, reader, chunk, skipped_in, skipped_bytes, got,
                   assert_failed, seeks, compressor, dest_, appended, varint,
                   more_units>>

\* The positions sought: the first two bytes, a byte after the one where the
\* damaged files end or fail, the end of the file and the byte beyond it.
FdSeekTargets == {0, 1, 6, Len(file), Len(file) + 1}

FdSeekOp ==
    \E i \in FdReaders : \E new_pos \in FdSeekTargets : \E short \in BOOLEAN :
        \E res \in {FdSeek(fd_readers[i].fd, fd_offset, new_pos, short)} :
            FdCalled(i, "FdReader::Seek", new_pos, res, <<>>)

FdReadOp ==
    \E i \in FdReaders : \E length \in 1..MaxRead : \E short \in BOOLEAN :
        \E res \in {FdRead(fd_readers[i].fd, fd_offset, length, short)} :
            FdCalled(i, "FdReader::Read", length, res, res.bytes)

NextFdReaders == FdSeekOp \/ FdReadOp

SpecFdReaders == InitFdReaders /\ [][NextFdReaders]_vars

(***************************************************************************)
(* C29  FdReader: the position after Seek, and the read that follows.      *)
(***************************************************************************)
\* The bytes a read of the length at the position is to give: those of the
\* file from the position on, as far as the file can be read.
C29_BytesFrom(p, length) ==
    SubSeq(file, p + 1, p + Min(length, Max(avail - p, 0)))

\* Reader i is called in the step.
C29_Calls(i, name) ==
    /\ arg' = i
    /\ op' = name

\* After Seek(P) returned true the reader is at P.
C29_SeekStep(i) ==
    (C29_Calls(i, "FdReader::Seek") /\ ret')
        => FdPos(fd_readers'[i].fd) = fd_readers'[i].arg

\* The Read that follows a Seek(P) that returned true gives the bytes of
\* the file from P on: all that were asked for, and true, where the file
\* has them; those the file has, and false, otherwise.
C29_NextReadStep(i) ==
    (/\ fd_readers[i].op = "FdReader::Seek"
     /\ fd_readers[i].ret
     /\ C29_Calls(i, "FdReader::Read"))
        => LET P == fd_readers[i].arg
               length == fd_readers'[i].arg
           IN  /\ fd_readers'[i].bytes = C29_BytesFrom(P, length)
               /\ ret' <=> P + length <= avail
               /\ FdPos(fd_readers'[i].fd) = P + Len(fd_readers'[i].bytes)

\* Seek(P) of a healthy reader with P beyond the size of the file returns
\* false, leaves the reader healthy, and leaves it at the size of the file.
C29_SeekBeyondStep(i) ==
    (/\ C29_Calls(i, "FdReader::Seek")
     /\ healthy(fd_readers[i].fd)
     /\ fd_readers'[i].arg > StatSize)
        => /\ ~ret'
           /\ healthy(fd_readers'[i].fd)
           /\ FdPos(fd_readers'[i].fd) = StatSize

C29_WitnessBeyond ==
    \E i \in FdReaders :
        /\ op = "FdReader::Seek"
        /\ arg = i
        /\ fd_readers[i].arg > StatSize
        /\ ~fd_readers[i].ret
        /\ healthy(fd_readers[i].fd)
        /\ FdPos(fd_readers[i].fd) = StatSize

(***************************************************************************)
(* C30  Readers over one file do not disturb each other.                   *)
(***************************************************************************)
\* A Read of reader i gives the bytes of the file at the position of
\* reader i, as many as asked for where the file has them, and moves
\* reader i by them: what the Read gives with no other reader about.
C30_ReadAloneStep(i) ==
    (arg' = i /\ op' = "FdReader::Read")
        => LET p == FdPos(fd_readers[i].fd)
               length == fd_readers'[i].arg
           IN  /\ fd_readers'[i].bytes = C29_BytesFrom(p, length)
               /\ FdPos(fd_readers'[i].fd) = p + Len(fd_readers'[i].bytes)
               /\ ret' <=> p + length <= avail

\* A call of reader i leaves every other reader as it was, and the file
\* offset of the descriptor too.
C30_OthersStep(i) ==
    arg' = i =>
        /\ \A j \in FdReaders \ {i} : fd_readers'[j] = fd_readers[j]
        /\ fd_offset' = fd_offset

\* C30: with two FdReaders over the same unchanging file (pread at the
\* reader's own position, no sync_pos) called in any order, every Read
\* returns the bytes of the file at that reader's own position, as it would
\* with the reader alone, and no call of one reader changes the position or
\* anything else of the other.
C30_IndependentReaders ==
    [][\A i \in FdReaders : C30_ReadAloneStep(i) /\ C30_OthersStep(i)]_vars

\* Both readers have read, and stand at different positions of the file:
\* reader 1, called last, has read its second stretch of bytes, reader 2
\* its first.
C30_Witness ==
    /\ op = "FdReader::Read"
    /\ arg = 1
    /\ fd_readers[1].ret
    /\ fd_readers[1].sought = -1
    /\ fd_readers[1].bytes = SubSeq(file, MaxRead + 1, 2 * MaxRead)
    /\ fd_readers[2].op = "FdReader::Read"
    /\ fd_readers[2].ret
    /\ fd_readers[2].bytes = SubSeq(file, 1, 2)
    /\ FdPos(fd_readers[2].fd) = 2

(***************************************************************************)
(* C31  The assertions of Recover.                                         *)
(***************************************************************************)
\* What Recover asserts of a reader whose recovery is applicable: it is not
\* healthy and recovery goes forwards; kReportSkippedBytes belongs to a
\* closed reader at position 0, the other kinds to an open one.
C31_DescriptorValid ==
    recoverable_ # "kNo" =>
        /\ ~Healthy
        /\ recoverable_pos_ > pos_
        /\ recoverable_ = "kReportSkippedBytes" => (closed_ /\ pos_ = 0)
        /\ recoverable_ # "kReportSkippedBytes" => ~closed_

\* C31: as claimed, in every reachable state a set recovery descriptor
\* (recoverable_ other than kNo) comes with a reader that is not healthy and
\* with recoverable_pos_ > pos_, whichever site has set it; it is
\* kReportSkippedBytes only on a closed reader with pos_ = 0, and another
\* kind only on a reader that is not closed.
C31_RecoverAssertions == C31_DescriptorValid

\* No assertion of Recover fails.
C31_NoAssertionFails == ~(op = "Recover" /\ assert_failed)

(***************************************************************************)
(* C32  Recover that returns true leaves the reader healthy.               *)
(***************************************************************************)
\* A damaged file behind a source that fails: some words of the file are
\* altered, and the source fails with an I/O error from some position on.
InitDamagedSource ==
    /\ \E cs \in FewChunkSeqs :
          \E d \in Defects(cs, WriteChunks(<<>>, <<SignatureChunk>> \o cs)) :
             /\ d.kind = "flip"
             /\ written = <<SignatureChunk>> \o cs
             /\ defect = d
             /\ file = Damaged(WriteChunks(<<>>, written), d)
    /\ avail \in 0..(Len(file) - 1)
    /\ src_err = TRUE
    /\ InitReader(0)
    /\ InitCaller

NextDamagedSource ==
    \/ ReadChunkOp
    \/ PullChunkHeaderOp
    \/ RecoverOp

SpecDamagedSource == InitDamagedSource /\ [][NextDamagedSource]_vars

C32_HealthyStep ==
    (op' = "Recover" /\ ret' /\ ~closed_') => ~failed_'

\* The byte source has failed under Recover: no success is reported.
C32_SourceStep ==
    (op' = "Recover" /\ ~closed_' /\ byte_reader_.healthy
        /\ ~byte_reader_'.healthy) => ~ret'

\* C32: as claimed, whenever Recover returns true on a reader that is not
\* closed the reader is healthy afterwards, and when the byte source becomes
\* unhealthy while Recover seeks or reads a block header again Recover does
\* not return true.
C32_RecoverLeavesHealthy == [][C32_HealthyStep /\ C32_SourceStep]_vars

(***************************************************************************)
(* Recover pass by pass.  A call of Recover is followed through its loop:  *)
(* it enters at the label again, and every step is one pass from a label   *)
(* to the next goto or to the return.  The files have one word of block 0  *)
(* altered, which makes recovery applicable, and the header of a later     *)
(* block replaced by one with a valid hash and other pointers.             *)
(***************************************************************************)
\* next_chunk of the forged header: none, into the block header, after it,
\* into a block header beyond the end of the file, and two values near the
\* largest position, which added to a position wrap around to a block
\* boundary before it and to the word after that boundary.
ForgedNextChunks ==
    {0, 1, BlockHeaderSize + 1, 2 * kBlockSize + 1,
     MaxPosition + 1 - kBlockSize, MaxPosition + 2 - kBlockSize}

\* Those of them with which every call of Recover returns.
ReturningNextChunks == ForgedNextChunks \ {MaxPosition + 2 - kBlockSize}

InitForgedWith(next_chunks) ==
    /\ \E cs \in FewChunkSeqs \ {<<>>} :
          \E a \in 0..(BlockHeaderSize + ChunkHeaderSize - 1) :
             \E b \in BlockBoundaries(WriteChunks(<<>>, <<SignatureChunk>> \o cs))
                         \ {0} :
                \E p \in {0, 1} : \E n \in next_chunks :
                   /\ written = <<SignatureChunk>> \o cs
                   /\ defect = [kind |-> "forge", at |-> b,
                                header |-> MakeBlockHeader(p, n),
                                from |-> a, to |-> a]
                   /\ file = Damaged(Damaged(WriteChunks(<<>>, written),
                                            [kind |-> "flip", from |-> a,
                                             to |-> a]),
                                    defect)
    /\ avail = Len(file)
    /\ src_err = FALSE
    /\ InitReader(0)
    /\ InitCaller

InitForged == InitForgedWith(ForgedNextChunks)

\* The reading operations, each followed to its return, over the files on
\* which Recover returns.
InitForgedReads == InitForgedWith(ReturningNextChunks)

SpecForgedReads == InitForgedReads /\ [][Next]_vars

\* Recover(skipped_bytes) is called: it returns false at once when no
\* recovery is applicable, and is at the label again otherwise.
RecoverEnterOp ==
    /\ recover_pc = "none"
    /\ \E s \in SkippedStarts :
          /\ skipped_in' = s
          /\ skipped_bytes' = s
    /\ IF recoverable_ = "kNo"
       THEN /\ op' = "Recover"
            /\ arg' = 0
            /\ ret' = FALSE
            /\ recover_pc' = "none"
       ELSE /\ recover_pc' = "again"
            /\ UNCHANGED <<op, arg, ret>>
    /\ assert_failed' = FALSE
    /\ UNCHANGED <<env, failed_, closed_, pos_, chunk_, block_header_,
                   recoverable_, recoverable_pos_,
                   current_chunk_is_incomplete_, byte_reader_, chunk, got,
                   seeks, compressor, dest_, appended, varint, fd_readers,
                   fd_offset, decoder, limiting_reader, chain_writer,
                   fd_writer>>

\* One pass of the call in progress.
RecoverPassOp ==
    /\ recover_pc # "none"
    /\ \E pass \in {RecoverPass(recover_pc,
                                [Self EXCEPT !.assert_failed = assert_failed],
                                skipped_bytes)} :
          /\ Assign(pass.r)
          /\ skipped_bytes' = pass.skipped
          /\ IF pass.next = "return"
             THEN /\ recover_pc' = "none"
                  /\ op' = "Recover"
                  /\ arg' = 0
                  /\ ret' = pass.ok
             ELSE /\ recover_pc' = pass.next
                  /\ UNCHANGED <<op, arg, ret>>
    /\ UNCHANGED <<env, chunk, skipped_in, got, seeks, compressor, dest_,
                   appended, varint, fd_readers, fd_offset, decoder,
                   limiting_reader, chain_writer, fd_writer>>

NextRecoverPasses ==
    \/ recover_pc = "none" /\ ReadChunkOp
    \/ RecoverEnterOp
    \/ RecoverPassOp

\* A call in progress goes on: the thread in Recover is not stopped.
SpecRecoverPasses ==
    InitForged /\ [][NextRecoverPasses]_vars /\ WF_vars(RecoverPassOp)

(***************************************************************************)
(* C33  Recover terminates.                                                *)
(***************************************************************************)
\* No pass moves pos_ back, and pos_ has grown whenever find_chunk is
\* reached from a label.
C33_PassStep ==
    recover_pc # "none" =>
        /\ pos_' >= pos_
        /\ recover_pc' = "find_chunk" => pos_' > pos_

\* A return of true from find_chunk with pos_ beyond the end of the file:
\* the byte reader could not seek to pos_.
C33_BeyondEndStep ==
    (recover_pc = "find_chunk" /\ recover_pc' = "none" /\ ret'
        /\ pos_ > Len(file)) => IsBlockBoundary(pos_')

C33_PassesIncrease == [][C33_PassStep]_vars

C33_EndsAtBlockBoundary == [][C33_BeyondEndStep]_vars

C33_Returns == (recover_pc # "none") ~> (recover_pc = "none")

\* C33: as claimed, Recover terminates on every finite file whatever the
\* block headers hold: every pass through the loop of again and find_chunk
\* strictly increases pos_, every call of Recover returns, and a call that
\* ends because the byte reader cannot seek to pos_ (beyond the end of the
\* file) returns true with pos_ at a block boundary.
C33_RecoverTerminates ==
    /\ C33_PassesIncrease
    /\ C33_EndsAtBlockBoundary
    /\ C33_Returns

(***************************************************************************)
(* C34  A healthy reader stands at a possible chunk boundary.              *)
(***************************************************************************)
\* C34: as claimed, whenever the reader is open and healthy pos_ is a
\* possible chunk boundary (pos_ mod kBlockSize is 0 or at least the size
\* of a block header): after construction, after ReadChunk,
\* PullChunkHeader and the seeks, and after every Recover that returns
\* true.
C34_PossibleChunkBoundary == Healthy => IsPossibleChunkBoundary(pos_)

(***************************************************************************)
(* C35  Reading resumes where the data at hand had ended.                  *)
(***************************************************************************)
\* The chunk the next ReadChunk is to return, and the end of it.
C35_Next == Len(got) + 1

C35_Reading ==
    /\ op' = "ReadChunk"
    /\ avail' = avail
    /\ defect.kind = "none"
    /\ Healthy
    /\ C35_Next <= Len(written)

\* The data at hand end before the end of the chunk: ReadChunk returns
\* false, the reader stays healthy where it is, and the byte reader has
\* taken all the data at hand.
C35_StopStep ==
    (C35_Reading /\ avail < NextStart(C35_Next)) =>
        /\ ~ret' /\ ~failed_' /\ ~closed_'
        /\ recoverable_' = "kNo"
        /\ pos_' = pos_
        /\ byte_reader_'.pos = Max(byte_reader_.pos, avail)
        /\ got' = got

\* The chunk is at hand to its end, whatever part of it an earlier call has
\* taken: ReadChunk returns the chunk as written, and the byte reader has
\* gone on from where it was to the end of the chunk.
C35_ResumeStep ==
    (C35_Reading /\ avail >= NextStart(C35_Next)) =>
        /\ pos_ = Starts[C35_Next]
        /\ byte_reader_.pos <= avail
        /\ ret' /\ ~failed_'
        /\ chunk' = written[C35_Next]
        /\ pos_' = NextStart(C35_Next)
        /\ byte_reader_'.pos = pos_'
        /\ byte_reader_'.pos >= byte_reader_.pos

\* C35: when ReadChunk has returned false on a healthy reader because the
\* file ended inside a chunk (in the chunk header, in a block header or in
\* the payload) and the rest of the chunk becomes available, the next
\* ReadChunk returns true with the chunk that reading the whole file at
\* once returns, going on from where the byte reader stood.
C35_ResumableReading == [][C35_StopStep /\ C35_ResumeStep]_vars

\* ReadChunk has returned false with the byte reader where the data ended,
\* and the rest of the file has become available since.
C35_Stopped ==
    /\ defect.kind = "none"
    /\ op = "ReadChunk" /\ ~ret /\ Healthy
    /\ current_chunk_is_incomplete_
    /\ byte_reader_.pos < avail
    /\ avail = Len(file)

\* Stopped inside the block header that interrupts the payload.
C35_Witness ==
    /\ C35_Stopped
    /\ chunk_.data # <<>>
    /\ RemainingInBlockHeader(byte_reader_.pos) \in 1..(BlockHeaderSize - 1)

\* Stopped inside the chunk header.
C35_WitnessChunkHeader ==
    /\ C35_Stopped
    /\ pos_ > 0
    /\ RemainingInBlockHeader(byte_reader_.pos) = 0
    /\ DistanceWithoutOverhead(pos_, byte_reader_.pos)
           \in 1..(ChunkHeaderSize - 1)

\* Stopped inside the payload.
C35_WitnessPayload ==
    /\ C35_Stopped
    /\ RemainingInBlockHeader(byte_reader_.pos) = 0
    /\ Len(chunk_.data) \in 1..(HeaderDataSize(chunk_.header) - 1)

(***************************************************************************)
(* C36  Skipped bytes are the distance Recover moved the position.         *)
(***************************************************************************)
C36_RecoverStep ==
    (op' = "Recover" /\ avail' = avail /\ ret' /\ ~closed_) =>
        skipped_bytes' = Counted(skipped_in', pos_' - pos_)

\* C36: on a reader that is not closed, every Recover that returns true
\* adds to the counter, saturating at the maximum, exactly the distance
\* from the position before the call to the position after it, over all
\* passes of its retry loop.
C36_SkippedIsDistance == [][C36_RecoverStep]_vars

(***************************************************************************)
(* ChunkDecoder: the record cursor over the decoded values of a chunk.     *)
(* limits_[i] is the end of record i in the values; values_reader_ reads   *)
(* the values.                                                             *)
(***************************************************************************)
MaxRecords == 3

MaxValuesSize == 3

num_records(d) == Len(d.limits_)

index(d) == d.index_

\* values_reader_.Read(dest, length): appends length bytes to dest, or what
\* is left of the values when they end before.
ValuesRead(d, dest, length) ==
    LET from == d.values_pos
        size == Len(d.values)
    IN  IF from + length <= size
        THEN [d |-> [d EXCEPT !.values_pos = from + length], ok |-> TRUE,
              dest |-> dest \o SubSeq(d.values, from + 1, from + length)]
        ELSE [d |-> [d EXCEPT !.values_pos = size], ok |-> FALSE,
              dest |-> dest \o SubSeq(d.values, from + 1, size)]

\* values_reader_.Seek(new_pos)
ValuesSeek(d, new_pos) ==
    IF new_pos <= Len(d.values)
    THEN [d |-> [d EXCEPT !.values_pos = new_pos], ok |-> TRUE]
    ELSE [d |-> [d EXCEPT !.values_pos = Len(d.values)], ok |-> FALSE]

\* limit - start in size_t.
SizeSub(a, b) == (a - b) % (MaxValuesSize + 1)

DecoderAssert(d, cond) ==
    IF cond THEN d ELSE [d EXCEPT !.assert_failed = TRUE]

\* The raw-bytes overloads of ReadRecord.
RecordOverloads == {"string_view", "string", "Chain"}

\* Fault: reads up to the end of the record from wherever the values reader
\* is, as many bytes as the end position says.
ReadRecordOfLimit(d, overload, record) ==
    IF index(d) = num_records(d) \/ ~d.healthy
    THEN [d |-> d, ok |-> FALSE, record |-> record]
    ELSE The({ [d |-> [DecoderAssert(rd.d, rd.ok) EXCEPT !.index_ = @ + 1],
                ok |-> TRUE, record |-> rd.dest]
               : rd \in {ValuesRead(d, <<>>, d.limits_[d.index_ + 1])}})

\* start is where the values reader is, limit the end of the record at the
\* index; the string and Chain overloads clear *record and append to it.
ReadRecord(d, overload, record) ==
    IF index(d) = num_records(d) \/ ~d.healthy
    THEN [d |-> d, ok |-> FALSE, record |-> record]
    ELSE LET start == d.values_pos
             limit == d.limits_[d.index_ + 1]
             checked == DecoderAssert(d, start <= limit)
         IN  The({ [d |-> [DecoderAssert(rd.d, rd.ok) EXCEPT !.index_ = @ + 1],
                    ok |-> TRUE, record |-> rd.dest]
                   : rd \in {ValuesRead(checked, <<>>,
                                        SizeSub(limit, start))}})

UnsignedMin(a, b) == IF a <= b THEN a ELSE b

SetIndex(d, i) ==
    LET checked == DecoderAssert(d, d.healthy)
        moved == [checked EXCEPT !.index_ = UnsignedMin(i, num_records(d))]
        start == IF moved.index_ = 0 THEN 0 ELSE moved.limits_[moved.index_]
    IN  The({ DecoderAssert(sk.d, sk.ok) : sk \in {ValuesSeek(moved, start)}})

\* The end positions of the records of a chunk: sorted, the last one the
\* size of the values.
DecoderLimits ==
    {l \in UNION {[1..n -> 0..MaxValuesSize] : n \in 0..MaxRecords} :
        \A i \in 1..(Len(l) - 1) : l[i] <= l[i + 1]}

ValuesOf(limits) ==
    [j \in 1..(IF limits = <<>> THEN 0 ELSE limits[Len(limits)]) |-> 10 + j]

\* A decoder after Reset(chunk) has parsed a chunk, or one that has failed.
InitDecoder ==
    /\ IdleChunkReader
    /\ compressor = Absent
    /\ dest_ = Absent
    /\ appended = <<>>
    /\ varint = Absent
    /\ fd_readers = Absent
    /\ fd_offset = 0
    /\ recover_pc = "none"
    /\ limiting_reader = Absent
    /\ chain_writer = Absent
    /\ fd_writer = Absent
    /\ \E l \in DecoderLimits, h \in BOOLEAN :
          decoder = [state |-> "open",
                     d |-> [healthy |-> h, limits_ |-> l,
                            values |-> ValuesOf(l), values_pos |-> 0,
                            index_ |-> 0, assert_failed |-> FALSE],
                     record |-> <<>>, overload |-> "none", before |-> "Reset"]

DecoderCalled(name, a, ok, d, record, overload) ==
    /\ decoder' = [state |-> "open", d |-> d, record |-> record,
                   overload |-> overload, before |-> op]
    /\ op' = name
    /\ arg' = a
    /\ ret' = ok
    /\ UNCHANGED <<env, reader, chunk, skipped_in, skipped_bytes, got,
                   assert_failed, seeks, compressor, dest_, appended, varint,
                   fd_readers, fd_offset, recover_pc, limiting_reader,
                   chain_writer, fd_writer>>

\* The record the caller passes holds whatever an earlier call left in it.
DecoderReadRecordOp ==
    \E overload \in RecordOverloads :
        \E res \in {ReadRecord(decoder.d, overload, decoder.record)} :
            DecoderCalled("ChunkDecoder::ReadRecord", 0, res.ok, res.d,
                          res.record, overload)

DecoderSetIndexOp ==
    /\ decoder.d.healthy
    /\ \E i \in 0..(MaxRecords + 1) :
          DecoderCalled("ChunkDecoder::SetIndex", i, TRUE,
                        SetIndex(decoder.d, i), decoder.record, "none")

NextDecoder == DecoderReadRecordOp \/ DecoderSetIndexOp

SpecDecoder == InitDecoder /\ [][NextDecoder]_vars

(***************************************************************************)
(* C37  The record cursor of ChunkDecoder.                                 *)
(***************************************************************************)
\* Where record number i (from 0) starts in the values.
RecordStart(d, i) == IF i = 0 THEN 0 ELSE d.limits_[i]

C37_Cursor ==
    decoder.d.healthy =>
        /\ index(decoder.d) <= num_records(decoder.d)
        /\ decoder.d.values_pos = RecordStart(decoder.d, index(decoder.d))
        /\ ~decoder.d.assert_failed

C37_ReadRecordStep ==
    op' = "ChunkDecoder::ReadRecord" =>
        LET d == decoder.d
        IN  IF index(d) = num_records(d) \/ ~d.healthy
            THEN /\ ~ret'
                 /\ decoder'.d = d
                 /\ decoder'.record = decoder.record
            ELSE /\ ret'
                 /\ decoder'.record =
                        SubSeq(d.values, RecordStart(d, index(d)) + 1,
                               d.limits_[index(d) + 1])
                 /\ index(decoder'.d) = index(d) + 1
                 /\ decoder'.d.healthy
                 /\ decoder'.d.limits_ = d.limits_

C37_SetIndexStep ==
    op' = "ChunkDecoder::SetIndex" =>
        /\ index(decoder'.d) = UnsignedMin(arg', num_records(decoder.d))
        /\ decoder'.d.healthy
        /\ decoder'.d.limits_ = decoder.d.limits_

\* C37: on a healthy decoder, after any sequence of ReadRecord and SetIndex
\* calls, index <= num_records and the values reader stands at
\* limits[index - 1] (0 at index 0); SetIndex(i) sets the index to
\* min(i, num_records); ReadRecord returns false and changes nothing
\* exactly when index = num_records or the decoder is unhealthy, and
\* otherwise returns the bytes [limits[index - 1], limits[index]) of the
\* values, adds one to the index and makes no failure.
C37_RecordCursor ==
    /\ []C37_Cursor
    /\ [][C37_ReadRecordStep /\ C37_SetIndexStep]_vars

\* A record that does not start at 0 has been read after the index was set
\* back from the end.
C37_Witness ==
    /\ decoder.state = "open"
    /\ op = "ChunkDecoder::ReadRecord" /\ ret
    /\ decoder.before = "ChunkDecoder::SetIndex"
    /\ index(decoder.d) = num_records(decoder.d)
    /\ decoder.record # <<>>
    /\ Len(decoder.record) < Len(decoder.d.values)

(***************************************************************************)
(* LimitingReader: a Reader that reads from another Reader up to a size    *)
(* limit.  It shares the buffer of its source: start_pos, pos and          *)
(* limit_pos_ are the positions of start_, cursor_ and limit_.             *)
(***************************************************************************)
MaxSourceSize == 4

SourceData(n) == [j \in 1..n |-> 20 + j]

\* The source Reader: buffers of up to buf bytes over its data; when err is
\* set it fails where its data end.
SourceReader(data, buf, err) ==
    [data |-> data, buf |-> buf, err |-> err, healthy |-> TRUE,
     start_pos |-> 0, pos |-> 0, limit_pos |-> 0]

SourceEnds(src) ==
    [src EXCEPT !.start_pos = Len(src.data), !.pos = Len(src.data),
                !.limit_pos = Len(src.data), !.healthy = ~src.err]

SourcePull(src) ==
    IF src.pos < src.limit_pos THEN [src |-> src, ok |-> TRUE]
    ELSE IF ~src.healthy THEN [src |-> src, ok |-> FALSE]
    ELSE IF src.pos >= Len(src.data)
    THEN [src |-> SourceEnds(src), ok |-> FALSE]
    ELSE [src |-> [src EXCEPT !.start_pos = src.pos,
                              !.limit_pos =
                                  Min(src.pos + src.buf, Len(src.data))],
          ok |-> TRUE]

\* Read(dest, length) and CopyTo(dest, length) of the source.
SourceRead(src, length) ==
    IF length <= src.limit_pos - src.pos
    THEN [src |-> [src EXCEPT !.pos = @ + length], ok |-> TRUE,
          bytes |-> SubSeq(src.data, src.pos + 1, src.pos + length)]
    ELSE IF ~src.healthy THEN [src |-> src, ok |-> FALSE, bytes |-> <<>>]
    ELSE IF src.pos + length <= Len(src.data)
    THEN [src |-> [src EXCEPT !.start_pos = src.pos + length,
                              !.pos = src.pos + length,
                              !.limit_pos = src.pos + length],
          ok |-> TRUE,
          bytes |-> SubSeq(src.data, src.pos + 1, src.pos + length)]
    ELSE [src |-> SourceEnds(src), ok |-> FALSE,
          bytes |-> SubSeq(src.data, src.pos + 1, Len(src.data))]

SourceSeek(src, new_pos) ==
    IF new_pos >= src.start_pos /\ new_pos <= src.limit_pos
    THEN [src |-> [src EXCEPT !.pos = new_pos], ok |-> TRUE]
    ELSE IF ~src.healthy THEN [src |-> src, ok |-> FALSE]
    ELSE IF new_pos > Len(src.data)
    THEN [src |-> [src EXCEPT !.start_pos = Len(src.data),
                              !.pos = Len(src.data),
                              !.limit_pos = Len(src.data)],
          ok |-> FALSE]
    ELSE [src |-> [src EXCEPT !.start_pos = new_pos, !.pos = new_pos,
                              !.limit_pos = new_pos],
          ok |-> TRUE]

SourceSize(src) == [ok |-> src.healthy, size |-> Len(src.data)]

\* src_->set_cursor(cursor_)
SetCursor(l) == [l EXCEPT !.src_.pos = l.pos]

\* Fault: the buffer of the source is taken over whole.
SyncBufferWhole(l) ==
    [l EXCEPT !.start_pos = l.src_.start_pos,
              !.pos = l.src_.pos,
              !.limit_pos_ = l.src_.limit_pos,
              !.healthy = @ /\ l.src_.healthy]

SyncBuffer(l) ==
    [l EXCEPT !.start_pos = l.src_.start_pos,
              !.pos = l.src_.pos,
              !.limit_pos_ = IF l.src_.limit_pos > l.size_limit_
                             THEN l.size_limit_ ELSE l.src_.limit_pos,
              !.healthy = @ /\ l.src_.healthy]

\* LimitingReader(src, size_limit) over a Reader that is no LimitingReader.
LimitingReaderConstruct(src, size_limit) ==
    SyncBuffer([src_ |-> src, size_limit_ |-> size_limit, wrapped_ |-> FALSE,
                healthy |-> TRUE, start_pos |-> 0, pos |-> 0,
                limit_pos_ |-> 0,
                assert_failed |-> ~(size_limit >= src.pos)])

\* LimitingReader(src, size_limit) over a healthy LimitingReader: it reads
\* from the source of that one.
LimitingReaderWrap(inner, size_limit) ==
    SyncBuffer([src_ |-> SetCursor(inner).src_,
                size_limit_ |-> UnsignedMin(size_limit, inner.size_limit_),
                wrapped_ |-> TRUE,
                healthy |-> TRUE, start_pos |-> 0, pos |-> 0,
                limit_pos_ |-> 0,
                assert_failed |->
                    inner.assert_failed \/ ~(size_limit >= inner.pos)])

LimitingAssert(l, cond) ==
    IF cond THEN l ELSE [l EXCEPT !.assert_failed = TRUE]

LimitingPullSlow(l) ==
    IF ~l.healthy THEN [l |-> l, ok |-> FALSE]
    ELSE IF l.limit_pos_ = l.size_limit_
    THEN [l |-> SetCursor(l), ok |-> FALSE]
    ELSE The({ [l |-> SyncBuffer([l EXCEPT !.src_ = pl.src]), ok |-> pl.ok]
               : pl \in {SourcePull(SetCursor(l).src_)}})

\* ReadInternal(dest, length), and CopyToSlow(Writer* dest, length), which
\* has the same steps.
LimitingReadInternal(l, length) ==
    IF ~l.healthy THEN [l |-> l, ok |-> FALSE, bytes |-> <<>>]
    ELSE LET checked == LimitingAssert(SetCursor(l), l.pos <= l.size_limit_)
             length_to_read ==
                 UnsignedMin(length,
                             PositionSub(l.size_limit_, l.pos))
         IN  The({ [l |-> SyncBuffer([checked EXCEPT !.src_ = rd.src]),
                    ok |-> rd.ok /\ length_to_read = length,
                    bytes |-> rd.bytes]
                   : rd \in {SourceRead(checked.src_, length_to_read)}})

LimitingSeekSlow(l, new_pos) ==
    IF ~l.healthy THEN [l |-> l, ok |-> FALSE]
    ELSE LET pos_to_seek == UnsignedMin(new_pos, l.size_limit_)
         IN  The({ [l |-> SyncBuffer([l EXCEPT !.src_ = sk.src]),
                    ok |-> sk.ok /\ pos_to_seek = new_pos]
                   : sk \in {SourceSeek(SetCursor(l).src_, pos_to_seek)}})

LimitingSize(l) ==
    IF ~l.healthy THEN [l |-> l, ok |-> FALSE, size |-> -1]
    ELSE The({ IF ~sz.ok
               THEN [l |-> SyncBuffer(SetCursor(l)), ok |-> FALSE, size |-> -1]
               ELSE [l |-> SyncBuffer(SetCursor(l)), ok |-> TRUE,
                     size |-> UnsignedMin(sz.size, l.size_limit_)]
               : sz \in {SourceSize(SetCursor(l).src_)}})

\* Reader::Pull(), Read(), CopyTo() and Seek(): served from the buffer when
\* it holds what is asked for.
LimitingPull(l) ==
    IF l.limit_pos_ - l.pos > 0 THEN [l |-> l, ok |-> TRUE]
    ELSE LimitingPullSlow(l)

LimitingRead(l, length) ==
    IF length <= l.limit_pos_ - l.pos
    THEN [l |-> [l EXCEPT !.pos = @ + length], ok |-> TRUE,
          bytes |-> SubSeq(l.src_.data, l.pos + 1, l.pos + length)]
    ELSE LimitingReadInternal(l, length)

LimitingSeek(l, new_pos) ==
    IF new_pos >= l.start_pos /\ new_pos <= l.limit_pos_
    THEN [l |-> [l EXCEPT !.pos = new_pos], ok |-> TRUE]
    ELSE LimitingSeekSlow(l, new_pos)

SizeLimits == 0..(MaxSourceSize + 1)

\* A LimitingReader over a source at position 0 whose buffer is empty.
InitLimitingReader ==
    /\ IdleChunkReader
    /\ compressor = Absent
    /\ dest_ = Absent
    /\ appended = <<>>
    /\ varint = Absent
    /\ fd_readers = Absent
    /\ fd_offset = 0
    /\ recover_pc = "none"
    /\ decoder = Absent
    /\ chain_writer = Absent
    /\ fd_writer = Absent
    /\ \E n \in 0..MaxSourceSize, size_limit \in SizeLimits,
          err \in BOOLEAN, buf \in {1, MaxSourceSize} :
          limiting_reader =
              [state |-> "open",
               l |-> LimitingReaderConstruct(
                         SourceReader(SourceData(n), buf, err), size_limit),
               limits |-> {size_limit}, bytes |-> <<>>, size |-> -1]

LimitingCalled(name, a, ok, l, limits, bytes, size) ==
    /\ limiting_reader' = [state |-> "open", l |-> l, limits |-> limits,
                           bytes |-> bytes, size |-> size]
    /\ op' = name
    /\ arg' = a
    /\ ret' = ok
    /\ UNCHANGED <<env, reader, chunk, skipped_in, skipped_bytes, got,
                   assert_failed, seeks, compressor, dest_, appended, varint,
                   fd_readers, fd_offset, recover_pc, decoder, chain_writer,
                   fd_writer>>

LimitingPullOp ==
    \E res \in {LimitingPull(limiting_reader.l)} :
        LimitingCalled("LimitingReader::Pull", 0, res.ok, res.l,
                       limiting_reader.limits, <<>>, -1)

ReadLengths == 1..(MaxSourceSize + 1)

LimitingReadOp ==
    \E length \in ReadLengths :
        \E res \in {LimitingRead(limiting_reader.l, length)} :
            LimitingCalled("LimitingReader::Read", length, res.ok, res.l,
                           limiting_reader.limits, res.bytes, -1)

LimitingCopyToOp ==
    \E length \in ReadLengths :
        \E res \in {LimitingRead(limiting_reader.l, length)} :
            LimitingCalled("LimitingReader::CopyTo", length, res.ok, res.l,
                           limiting_reader.limits, res.bytes, -1)

LimitingSeekOp ==
    \E new_pos \in 0..(MaxSourceSize + 1) :
        \E res \in {LimitingSeek(limiting_reader.l, new_pos)} :
            LimitingCalled("LimitingReader::Seek", new_pos, res.ok, res.l,
                           limiting_reader.limits, <<>>, -1)

LimitingSizeOp ==
    \E res \in {LimitingSize(limiting_reader.l)} :
        LimitingCalled("LimitingReader::Size", 0, res.ok, res.l,
                       limiting_reader.limits, <<>>, res.size)

\* A second LimitingReader is built on the healthy first one, with a size
\* limit that is no smaller than the position.
LimitingWrapOp ==
    /\ limiting_reader.l.healthy
    /\ ~limiting_reader.l.wrapped_
    /\ \E size_limit \in SizeLimits :
          /\ size_limit >= limiting_reader.l.pos
          /\ LimitingCalled("LimitingReader::LimitingReader", size_limit,
                            TRUE,
                            LimitingReaderWrap(limiting_reader.l, size_limit),
                            limiting_reader.limits \cup {size_limit},
                            <<>>, -1)

NextLimitingReader ==
    \/ LimitingPullOp
    \/ LimitingReadOp
    \/ LimitingCopyToOp
    \/ LimitingSeekOp
    \/ LimitingSizeOp
    \/ LimitingWrapOp

SpecLimitingReader == InitLimitingReader /\ [][NextLimitingReader]_vars

(***************************************************************************)
(* C38  LimitingReader never goes past its limit.                          *)
(***************************************************************************)
\* The smallest of the limits given to the constructors.
SmallestLimit == CHOOSE m \in limiting_reader.limits :
                     \A x \in limiting_reader.limits : m <= x

\* How far the reader can get: to the limit, or to where the source ends.
ReadableEnd(l) == UnsignedMin(l.size_limit_, Len(l.src_.data))

C38_WithinLimit ==
    LET l == limiting_reader.l
    IN  /\ l.start_pos <= l.pos
        /\ l.pos <= l.limit_pos_
        /\ l.limit_pos_ <= l.size_limit_
        /\ l.size_limit_ = SmallestLimit
        /\ ~l.assert_failed

C38_Called(names) ==
    /\ op' \in names
    /\ limiting_reader.l.healthy

\* The bytes a Read or CopyTo delivers are those of the source from the
\* position before to the position after.
C38_Delivered ==
    C38_Called({"LimitingReader::Read", "LimitingReader::CopyTo"}) =>
        /\ limiting_reader'.bytes =
               SubSeq(limiting_reader.l.src_.data, limiting_reader.l.pos + 1,
                      limiting_reader'.l.pos)
        /\ ret' => limiting_reader'.l.pos = limiting_reader.l.pos + arg'

C38_SizeStep ==
    (C38_Called({"LimitingReader::Size"}) /\ ret') =>
        limiting_reader'.size =
            UnsignedMin(Len(limiting_reader.l.src_.data),
                        limiting_reader.l.size_limit_)

\* As claimed: a Read or CopyTo of more than is left below the limit, and a
\* Seek beyond the limit, end at the limit and return false.
C38_ToTheLimit ==
    LET l == limiting_reader.l
    IN  /\ ( /\ C38_Called({"LimitingReader::Read", "LimitingReader::CopyTo"})
             /\ arg' > l.size_limit_ - l.pos ) =>
               (~ret' /\ limiting_reader'.l.pos = l.size_limit_)
        /\ ( /\ C38_Called({"LimitingReader::Seek"})
             /\ arg' > l.size_limit_ ) =>
               (~ret' /\ limiting_reader'.l.pos = l.size_limit_)

\* Amended: they end at the limit when the source has that many bytes, and
\* where the source ends when it is shorter than the limit.
C38_ToTheReadableEnd ==
    LET l == limiting_reader.l
    IN  /\ ( /\ C38_Called({"LimitingReader::Read", "LimitingReader::CopyTo"})
             /\ arg' > l.size_limit_ - l.pos ) =>
               (~ret' /\ limiting_reader'.l.pos = ReadableEnd(l))
        /\ ( /\ C38_Called({"LimitingReader::Seek"})
             /\ arg' > l.size_limit_ ) =>
               (~ret' /\ limiting_reader'.l.pos = ReadableEnd(l))

\* C38 as claimed: after any sequence of Pull, Read, CopyTo, Seek and Size
\* calls pos <= size_limit and limit_pos <= size_limit; a Read or CopyTo
\* asking for more than size_limit - pos consumes up to the limit and
\* returns false; a Seek beyond the limit moves to the limit and returns
\* false; Size reports min(source size, size_limit); a LimitingReader built
\* on a healthy LimitingReader enforces the smaller limit.
C38_NeverPastLimit ==
    /\ []C38_WithinLimit
    /\ [][C38_Delivered /\ C38_SizeStep /\ C38_ToTheLimit]_vars

\* C38 amended: the same, but a Read or CopyTo asking for more than
\* size_limit - pos, and a Seek beyond the limit, end at the smaller of the
\* limit and the size of the source.
C38_NeverPastReadableEnd ==
    /\ []C38_WithinLimit
    /\ [][C38_Delivered /\ C38_SizeStep /\ C38_ToTheReadableEnd]_vars

\* A reader built on another one with a larger limit, over a source that
\* holds more than the smaller limit in its buffer, has been asked for more
\* than the limit leaves and stands at the limit.
C38_Witness ==
    /\ limiting_reader.state = "open"
    /\ op \in {"LimitingReader::Read", "LimitingReader::CopyTo"}
    /\ ~ret
    /\ limiting_reader.l.healthy
    /\ limiting_reader.l.wrapped_
    /\ Cardinality(limiting_reader.limits) = 2
    /\ limiting_reader.l.pos = limiting_reader.l.size_limit_
    /\ limiting_reader.l.src_.limit_pos > limiting_reader.l.size_limit_
    /\ limiting_reader.bytes # <<>>

(***************************************************************************)
(* ChainWriter: Push, Write, Flush, Truncate and Close on a Chain.         *)
(***************************************************************************)
ChainWriterPos(w) == w.start_pos_ + w.cursor

ChainWriterLimitPos(w) == w.start_pos_ + w.limit

ChainWriterPushSlow(w) ==
    IF ~healthy(w) THEN [w |-> w, ok |-> FALSE]
    ELSE IF Len(w.dest) = kSizeMax
    THEN [w |-> FailOverflow(w), ok |-> FALSE]
    ELSE [w |-> [w EXCEPT !.start_pos_ = Len(w.dest),
                          !.dest = @ \o [i \in 1..AppendBufferSize(w.dest) |->
                                            kUninitialized],
                          !.cursor = 0,
                          !.limit = AppendBufferSize(w.dest)],
          ok |-> TRUE]

\* Writer::Push()
ChainWriterPush(w) ==
    IF available(w) > 0 THEN [w |-> w, ok |-> TRUE] ELSE ChainWriterPushSlow(w)

\* WriteSlow(Chain&&)
ChainWriterWriteSlowMoved(w, src) ==
    IF ~healthy(w) THEN [w |-> w, ok |-> FALSE]
    ELSE LET w1 == DiscardBuffer(w)
             w2 == [w1 EXCEPT !.dest = @ \o src]
         IN  [w |-> MakeBuffer(w2), ok |-> TRUE]

WriteOverloads == {"string_view", "string&&", "const Chain&", "Chain&&"}

\* Writer::Write(src): into the buffer when it has the room, and the
\* WriteSlow of the overload otherwise.
ChainWriterWriteAs(w, src, overload) ==
    IF Len(src) <= available(w) THEN ChainWriterWrite(w, src)
    ELSE IF overload = "Chain&&" THEN ChainWriterWriteSlowMoved(w, src)
    ELSE ChainWriterWriteSlow(w, src)

ChainWriterFlush(w) ==
    IF ~healthy(w) THEN [w |-> w, ok |-> FALSE]
    ELSE LET discarded == DiscardBuffer(w)
         IN  [w |-> [discarded EXCEPT !.start_pos_ = Len(discarded.dest),
                                      !.cursor = 0, !.limit = 0],
              ok |-> TRUE]

ChainWriterTruncate(w, new_size) ==
    IF ~healthy(w) THEN [w |-> w, ok |-> FALSE]
    ELSE IF new_size >= w.start_pos_
    THEN IF new_size > ChainWriterPos(w)
         THEN [w |-> w, ok |-> FALSE]
         ELSE [w |-> [w EXCEPT !.cursor = new_size - w.start_pos_],
               ok |-> TRUE]
    ELSE [w |-> MakeBuffer([w EXCEPT !.dest = SubSeq(@, 1, new_size)]),
          ok |-> TRUE]

\* The calls made on one ChainWriter.
MaxCalls == 3

\* The data written: up to three bytes of one of two values.
WrittenData == {[i \in 1..n |-> b] : n \in 1..3, b \in {1, 2}}

\* The sizes of the Chain the writer is constructed on.
ChainSizes == {0, kSizeMax - 3, kSizeMax - 1, kSizeMax}

InitChainWriter ==
    /\ IdleChunkReader
    /\ compressor = Absent
    /\ dest_ = Absent
    /\ appended = <<>>
    /\ varint = Absent
    /\ fd_readers = Absent
    /\ fd_offset = 0
    /\ recover_pc = "none"
    /\ decoder = Absent
    /\ limiting_reader = Absent
    /\ fd_writer = Absent
    /\ \E n \in ChainSizes :
          chain_writer = [state |-> "open",
                          w |-> ChainWriterConstruct([i \in 1..n |-> 3]),
                          expect |-> [i \in 1..n |-> 3],
                          src |-> <<>>, overload |-> "none", calls |-> 0]

\* expect is what has been written, cut at every Truncate.
ChainWriterCalled(name, a, res, expect, src, overload) ==
    /\ chain_writer.state = "open"
    /\ chain_writer.calls < MaxCalls
    /\ Len(chain_writer.w.dest) <= kSizeMax
    /\ chain_writer' = [state |-> "open", w |-> res.w,
                        expect |-> IF res.ok THEN expect
                                   ELSE chain_writer.expect,
                        src |-> src, overload |-> overload,
                        calls |-> chain_writer.calls + 1]
    /\ op' = name
    /\ arg' = a
    /\ ret' = res.ok
    /\ UNCHANGED <<env, reader, chunk, skipped_in, skipped_bytes, got,
                   assert_failed, seeks, compressor, dest_, appended, varint,
                   fd_readers, fd_offset, recover_pc, decoder,
                   limiting_reader, fd_writer>>

ChainWriterPushOp ==
    ChainWriterCalled("ChainWriter::Push", 0,
                      ChainWriterPush(chain_writer.w), chain_writer.expect,
                      <<>>, "none")

ChainWriterWriteOp ==
    \E src \in WrittenData, overload \in WriteOverloads :
        ChainWriterCalled("ChainWriter::Write", Len(src),
                          ChainWriterWriteAs(chain_writer.w, src, overload),
                          chain_writer.expect \o src, src, overload)

ChainWriterFlushOp ==
    ChainWriterCalled("ChainWriter::Flush", 0,
                      ChainWriterFlush(chain_writer.w), chain_writer.expect,
                      <<>>, "none")

ChainWriterTruncateOp ==
    \E new_size \in 0..(kSizeMax + 1) :
        ChainWriterCalled("ChainWriter::Truncate", new_size,
                          ChainWriterTruncate(chain_writer.w, new_size),
                          SubSeq(chain_writer.expect, 1, new_size),
                          <<>>, "none")

ChainWriterCloseOp ==
    ChainWriterCalled("ChainWriter::Close", 0,
                      ChainWriterClose(chain_writer.w), chain_writer.expect,
                      <<>>, "none")

NextChainWriter ==
    \/ ChainWriterPushOp
    \/ ChainWriterWriteOp
    \/ ChainWriterFlushOp
    \/ ChainWriterTruncateOp
    \/ ChainWriterCloseOp

SpecChainWriter == InitChainWriter /\ [][NextChainWriter]_vars

(***************************************************************************)
(* C39  ChainWriter and its Chain.                                         *)
(***************************************************************************)
\* limit_pos() is the size of the Chain, which is what the assertions
\* "destination changed unexpectedly" look at; the position is the size of
\* what has been written.
C39_LimitPos ==
    healthy(chain_writer.w) =>
        /\ ChainWriterLimitPos(chain_writer.w) = Len(chain_writer.w.dest)
        /\ ChainWriterPos(chain_writer.w) = Len(chain_writer.expect)

C39_FlushStep ==
    (op' \in {"ChainWriter::Flush", "ChainWriter::Close"} /\ ret') =>
        chain_writer'.w.dest = chain_writer'.expect

C39_TruncateStep ==
    ( /\ op' = "ChainWriter::Truncate"
      /\ healthy(chain_writer.w)
      /\ arg' > ChainWriterPos(chain_writer.w) ) =>
        (~ret' /\ chain_writer'.w = chain_writer.w)

C39_OverflowStep ==
    ( /\ op' = "ChainWriter::Write"
      /\ healthy(chain_writer.w)
      /\ arg' > kSizeMax - ChainWriterPos(chain_writer.w) ) =>
        /\ ~ret'
        /\ chain_writer'.w.failed_
        /\ chain_writer'.w.dest = chain_writer.w.dest

\* C39: limit_pos() is the size of the Chain in every healthy state reached
\* by Push, Write (the four overloads), Flush and Truncate; after Flush or
\* Close the Chain holds what was written, cut to the last Truncate;
\* Truncate(n) with n > pos() returns false and changes nothing; every
\* WriteSlow overload fails with overflow, and appends nothing, when
\* src.size() is more than the maximum size less pos().
C39_ChainWriter ==
    /\ []C39_LimitPos
    /\ [][C39_FlushStep /\ C39_TruncateStep /\ C39_OverflowStep]_vars

\* The parts of C39 but the overflow of WriteSlow.
C39_WithoutOverflow ==
    /\ []C39_LimitPos
    /\ [][C39_FlushStep /\ C39_TruncateStep]_vars

\* The overflow of the overloads that look at the size.
C39_CheckedOverflow ==
    [][chain_writer'.overload # "Chain&&" => C39_OverflowStep]_vars

(***************************************************************************)
(* FdWriter (riegeli/bytes/fd_writer.cc): a BufferedWriter that writes to  *)
(* a file with pwrite().  buffer holds what is written to the buffer,      *)
(* limit the room of the buffer; start_pos_ is the file position of the    *)
(* beginning of the buffer.                                                *)
(***************************************************************************)
\* std::numeric_limits<off_t>::max()
kOffMax == 6

\* What the system calls of one behaviour do, one outcome for each call in
\* turn: interrupted, failed, one byte written, or all done; all is done
\* when the outcomes are used up.
MaxOutcomes == 2

CallOutcomes == {"EINTR", "EIO", "one", "all"}

OutcomePatterns == UNION {[1..n -> CallOutcomes] : n \in 0..MaxOutcomes}

NextOutcome(pattern) == IF pattern = <<>> THEN "all" ELSE Head(pattern)

RestOutcomes(pattern) == IF pattern = <<>> THEN <<>> ELSE Tail(pattern)

\* The file after bytes are written at offset; a gap reads as zeros.
WrittenAt(f, bytes, offset) ==
    [i \in 1..Max(Len(f), offset + Len(bytes)) |->
        IF i > offset /\ i <= offset + Len(bytes) THEN bytes[i - offset]
        ELSE IF i <= Len(f) THEN f[i] ELSE 0]

\* pwrite(dest, src.data(), src.size(), offset)
Pwrite(f, src, offset, pattern) ==
    LET outcome == NextOutcome(pattern)
        n == IF outcome = "one" THEN 1 ELSE Len(src)
    IN  IF outcome \in {"EINTR", "EIO"}
        THEN [result |-> -1, errno |-> outcome, file |-> f,
              pattern |-> RestOutcomes(pattern)]
        ELSE [result |-> n, errno |-> "none",
              file |-> WrittenAt(f, SubSeq(src, 1, n), offset),
              pattern |-> RestOutcomes(pattern)]

FdWriterConstruct(start_pos) ==
    [failed_ |-> FALSE, closed_ |-> FALSE, start_pos_ |-> start_pos,
     buffer |-> <<>>, limit |-> kFdBufferSize]

written_to_buffer(w) == Len(w.buffer)

\* limit_ = start_; return FailOperation(...) or FailOverflow();
FailOperation(w) == [Fail(w) EXCEPT !.limit = 0]

\* Fault: one pwrite() is taken to have written all of src.
FdWriteInternalOnce(w, f, src, pattern, log) ==
    IF Len(src) > kOffMax - w.start_pos_
    THEN [w |-> FailOperation(w), ok |-> FALSE, file |-> f,
          pattern |-> pattern, log |-> log]
    ELSE The({ IF res.result < 0
               THEN [w |-> FailOperation(w), ok |-> FALSE, file |-> res.file,
                     pattern |-> res.pattern, log |-> log]
               ELSE [w |-> [w EXCEPT !.start_pos_ = @ + Len(src)],
                     ok |-> TRUE, file |-> res.file, pattern |-> res.pattern,
                     log |-> log \o [i \in 1..res.result |->
                                        <<w.start_pos_ + i - 1, src[i]>>]]
               : res \in {Pwrite(f, src, w.start_pos_, pattern)}})

\* The loop of WriteInternal.  log lists the bytes pwrite() has written,
\* each with its file offset.
RECURSIVE FdWriteInternalLoop(_, _, _, _, _)
FdWriteInternalLoop(w, f, src, pattern, log) ==
    The({ IF res.result < 0
          THEN IF res.errno = "EINTR"
               THEN FdWriteInternalLoop(w, res.file, src, res.pattern, log)
               ELSE [w |-> FailOperation(w), ok |-> FALSE, file |-> res.file,
                     pattern |-> res.pattern, log |-> log]
          ELSE The({ IF Len(src) = res.result
                     THEN [w |-> w1, ok |-> TRUE, file |-> res.file,
                           pattern |-> res.pattern, log |-> log1]
                     ELSE FdWriteInternalLoop(
                              w1, res.file,
                              SubSeq(src, res.result + 1, Len(src)),
                              res.pattern, log1)
                     : w1 \in {[w EXCEPT !.start_pos_ = @ + res.result]},
                       log1 \in {log \o [i \in 1..res.result |->
                                            <<w.start_pos_ + i - 1, src[i]>>]}})
          : res \in {Pwrite(f, src, w.start_pos_, pattern)}})

\* FdWriterBase::WriteInternal(src)
FdWriteInternal(w, f, src, pattern, log) ==
    IF Len(src) > kOffMax - w.start_pos_
    THEN [w |-> FailOperation(w), ok |-> FALSE, file |-> f,
          pattern |-> pattern, log |-> log]
    ELSE FdWriteInternalLoop(w, f, src, pattern, log)

\* BufferedWriter::PushInternal(): what is in the buffer is written.
PushInternal(w, f, pattern) ==
    IF ~healthy(w)
    THEN [w |-> w, ok |-> FALSE, file |-> f, pattern |-> pattern,
          log |-> <<>>]
    ELSE IF written_to_buffer(w) = 0
    THEN [w |-> w, ok |-> TRUE, file |-> f, pattern |-> pattern, log |-> <<>>]
    ELSE FdWriteInternal([w EXCEPT !.buffer = <<>>], f, w.buffer, pattern,
                         <<>>)

\* Writer::Write(src): into the buffer when it has the room; otherwise the
\* buffer is pushed and src written.
FdWriterWrite(w, f, src, pattern) ==
    IF Len(src) <= w.limit - written_to_buffer(w)
    THEN [w |-> [w EXCEPT !.buffer = @ \o src], ok |-> TRUE, file |-> f,
          pattern |-> pattern, log |-> <<>>]
    ELSE The({ IF ~pushed.ok THEN pushed
               ELSE FdWriteInternal(pushed.w, pushed.file, src,
                                    pushed.pattern, pushed.log)
               : pushed \in {PushInternal(w, f, pattern)}})

\* fstat(): the size of the file.
FdWriterSeekSlow(w, f, new_pos, pattern) ==
    The({ IF ~pushed.ok THEN pushed
          ELSE IF new_pos >= pushed.w.start_pos_ /\ new_pos > Len(pushed.file)
          THEN \* File ends.
               [pushed EXCEPT !.w.start_pos_ = Len(pushed.file),
                              !.ok = FALSE]
          ELSE [pushed EXCEPT !.w.start_pos_ = new_pos]
          : pushed \in {PushInternal(w, f, pattern)}})

\* Writer::Seek(new_pos): inside the buffer the cursor moves.
FdWriterSeek(w, f, new_pos, pattern) ==
    IF new_pos >= w.start_pos_ /\ new_pos <= w.start_pos_ + Len(w.buffer)
    THEN [w |-> [w EXCEPT !.buffer = SubSeq(@, 1, new_pos - w.start_pos_)],
          ok |-> TRUE, file |-> f, pattern |-> pattern, log |-> <<>>]
    ELSE FdWriterSeekSlow(w, f, new_pos, pattern)

\* ftruncate(dest, new_size), called again when interrupted.
RECURSIVE Ftruncate(_, _, _, _)
Ftruncate(pushed, new_size, pattern, outcome) ==
    IF outcome = "EINTR"
    THEN Ftruncate(pushed, new_size, RestOutcomes(pattern),
                   NextOutcome(pattern))
    ELSE IF outcome = "EIO"
    THEN [pushed EXCEPT !.w = FailOperation(@), !.ok = FALSE,
                        !.pattern = pattern]
    ELSE [pushed EXCEPT !.w.start_pos_ = new_size,
                        !.file = [i \in 1..new_size |->
                                     IF i <= Len(@) THEN @[i] ELSE 0],
                        !.pattern = pattern]

FdWriterTruncate(w, f, new_size, pattern) ==
    The({ IF ~pushed.ok THEN pushed
          ELSE IF /\ new_size >= pushed.w.start_pos_
                  /\ new_size > Len(pushed.file)
          THEN \* File ends.
               [pushed EXCEPT !.w.start_pos_ = Len(pushed.file),
                              !.ok = FALSE]
          ELSE Ftruncate(pushed, new_size, RestOutcomes(pushed.pattern),
                         NextOutcome(pushed.pattern))
          : pushed \in {PushInternal(w, f, pattern)}})

\* The sizes of the file the writer is opened on, at its beginning or,
\* with O_APPEND, at its end.
FileSizes == {0, kOffMax - 1}

InitFdWriter ==
    /\ IdleChunkReader
    /\ compressor = Absent
    /\ dest_ = Absent
    /\ appended = <<>>
    /\ varint = Absent
    /\ fd_readers = Absent
    /\ fd_offset = 0
    /\ recover_pc = "none"
    /\ decoder = Absent
    /\ limiting_reader = Absent
    /\ chain_writer = Absent
    /\ \E n \in FileSizes, pattern \in OutcomePatterns :
       \E start_pos \in {0, n} :
          fd_writer = [state |-> "open", w |-> FdWriterConstruct(start_pos),
                       file |-> [i \in 1..n |-> 3], pattern |-> pattern,
                       src |-> <<>>, log |-> <<>>, outcomes |-> <<>>,
                       calls |-> 0]

\* outcomes are the outcomes the system calls of the call had.
FdWriterCalled(name, a, res, src) ==
    /\ fd_writer' = [state |-> "open", w |-> res.w, file |-> res.file,
                     pattern |-> res.pattern, src |-> src, log |-> res.log,
                     outcomes |-> SubSeq(fd_writer.pattern, 1,
                                         Len(fd_writer.pattern)
                                             - Len(res.pattern)),
                     calls |-> fd_writer.calls + 1]
    /\ op' = name
    /\ arg' = a
    /\ ret' = res.ok
    /\ UNCHANGED <<env, reader, chunk, skipped_in, skipped_bytes, got,
                   assert_failed, seeks, compressor, dest_, appended, varint,
                   fd_readers, fd_offset, recover_pc, decoder,
                   limiting_reader, chain_writer>>

\* The data of a call: bytes that tell the call and the place in it.
DataOfCall(n) == [i \in 1..n |-> 10 * (fd_writer.calls + 1) + i]

\* WriteInternal(src) as BufferedWriter calls it: on a healthy writer with
\* nothing in the buffer.
FdWriteInternalOp ==
    /\ fd_writer.calls < MaxCalls
    /\ healthy(fd_writer.w)
    /\ written_to_buffer(fd_writer.w) = 0
    /\ \E n \in 1..3 :
          FdWriterCalled("FdWriter::WriteInternal", n,
                         FdWriteInternal(fd_writer.w, fd_writer.file,
                                         DataOfCall(n), fd_writer.pattern,
                                         <<>>),
                         DataOfCall(n))

FdWriterWriteOp ==
    /\ fd_writer.calls < MaxCalls
    /\ \E n \in 1..3 :
          FdWriterCalled("FdWriter::Write", n,
                         FdWriterWrite(fd_writer.w, fd_writer.file,
                                       DataOfCall(n), fd_writer.pattern),
                         DataOfCall(n))

FdWriterSeekOp ==
    /\ fd_writer.calls < MaxCalls
    /\ \E new_pos \in 0..(kOffMax + 1) :
          FdWriterCalled("FdWriter::Seek", new_pos,
                         FdWriterSeek(fd_writer.w, fd_writer.file, new_pos,
                                      fd_writer.pattern),
                         <<>>)

FdWriterTruncateOp ==
    /\ fd_writer.calls < MaxCalls
    /\ \E new_size \in 0..(kOffMax + 1) :
          FdWriterCalled("FdWriter::Truncate", new_size,
                         FdWriterTruncate(fd_writer.w, fd_writer.file,
                                          new_size, fd_writer.pattern),
                         <<>>)

NextFdWriter ==
    \/ FdWriteInternalOp
    \/ FdWriterWriteOp
    \/ FdWriterSeekOp
    \/ FdWriterTruncateOp

SpecFdWriter == InitFdWriter /\ [][NextFdWriter]_vars

(***************************************************************************)
(* C40  FdWriter writes every byte once, at its place.                     *)
(***************************************************************************)
\* A system call of the call has failed.
C40_Failed(outcomes) == \E i \in 1..Len(outcomes) : outcomes[i] = "EIO"

\* The bytes of src, each with the file offset it belongs at.
C40_Placed(start_pos, src) ==
    [i \in 1..Len(src) |-> <<start_pos + i - 1, src[i]>>]

C40_WriteInternalStep ==
    op' = "FdWriter::WriteInternal" =>
        LET w == fd_writer.w
            src == fd_writer'.src
            log == fd_writer'.log
            placed == C40_Placed(w.start_pos_, src)
        IN  /\ log = SubSeq(placed, 1, Len(log))
            /\ fd_writer'.w.start_pos_ = w.start_pos_ + Len(log)
            /\ fd_writer'.file =
                   WrittenAt(fd_writer.file, SubSeq(src, 1, Len(log)),
                             w.start_pos_)
            /\ ret' => /\ log = placed
                       /\ healthy(fd_writer'.w)
            /\ ~ret' => /\ fd_writer'.w.failed_
                        /\ written_to_buffer(fd_writer'.w) = 0
                        /\ fd_writer'.w.limit = 0
                        /\ \/ C40_Failed(fd_writer'.outcomes)
                           \/ Len(src) > kOffMax - w.start_pos_
            /\ Len(src) > kOffMax - w.start_pos_ => (~ret' /\ log = <<>>)

\* The size of the file with what the writer holds in its buffer.
C40_Size == Max(Len(fd_writer.file),
                fd_writer.w.start_pos_ + written_to_buffer(fd_writer.w))

C40_BeyondSizeStep ==
    ( /\ op' \in {"FdWriter::Seek", "FdWriter::Truncate"}
      /\ healthy(fd_writer.w)
      /\ arg' > C40_Size
      /\ ~C40_Failed(fd_writer'.outcomes) ) =>
        /\ ~ret'
        /\ healthy(fd_writer'.w)
        /\ Len(fd_writer'.file) = C40_Size

====
